---- MODULE Spec2Model ----
(***************************************************************************)
(* Model of the voice pipeline of modul-vocal:                             *)
(*   - services/grokService.ts  (remote analysis, conversion, timing)      *)
(*   - the environment-aware synthesis loop (generateVoiceWithEnvironment) *)
(*   - services/elevenlabs/voiceSettings.ts (getVoiceSettings,             *)
(*     calculateEmotionTransitionDuration)                                 *)
(*   - App.tsx (handleTextChange, handleGenerateVoice)                     *)
(*                                                                         *)
(* Specifications.                                                         *)
(*   Spec       generateVoiceWithEnvironment with analyzeTextEnvironments  *)
(*   SpecVS     getVoiceSettings                                           *)
(*   SpecTD     calculateEmotionTransitionDuration                         *)
(*   SpecSounds mapEnvironmentToSounds                                     *)
(*   SpecJSON   analyzeTextWithGrok from the content of the reply on       *)
(*   SpecText   handleTextChange and the analyses it starts                *)
(*   SpecApp    handleGenerateVoice, invocations interleaved               *)
(*   SpecAppFair  SpecApp with every awaited promise and timer settling    *)
(*                                                                         *)
(* Representation.                                                         *)
(*   A JavaScript string is a sequence of one-character strings.  The      *)
(*   accented letters are written "eacute", "egrave", "ecirc", "agrave".   *)
(*   NullText is a text value that is no string (null at run time, where   *)
(*   the TypeScript annotations are erased).                               *)
(*   Times are integers counting 1/300 s, so that every quotient           *)
(*   words / wordsPerSecond and every product duration * 0.1 is exact.     *)
(*   Stability and similarity scores count 1/1000; getVoiceSettings works  *)
(*   in 1/1000000 so that its products are exact.                          *)
(***************************************************************************)
EXTENDS Integers, Sequences, FiniteSets, TLC

(***************************************************************************)
(* Bounds of the model.                                                    *)
(***************************************************************************)
MaxSegs == 2

(***************************************************************************)
(* Characters and strings.                                                 *)
(***************************************************************************)
\* a text that is no string, written as a sequence that no string equals
NullText == <<"null">>

IsString(s) == s # NullText

IsSpace(c) == c \in {" ", "\n", "\t"}

IsDigit(c) == c \in {"0", "1", "2", "3", "4", "5", "6", "7", "8", "9"}

\* the character class [\d\.\s]
IsNumDotSpace(c) == IsDigit(c) \/ c = "." \/ IsSpace(c)

IsNewline(c) == c = "\n"

\* the character classes of the regular expressions: \s, \d, [\d\.\s], \n
InClass(class, c) ==
    CASE class = "\\s"         -> IsSpace(c)
      [] class = "\\d"         -> IsDigit(c)
      [] class = "[\\d\\.\\s]" -> IsNumDotSpace(c)
      [] class = "\\n"         -> IsNewline(c)

UpperCase == <<"A", "B", "C", "D", "E", "F", "G", "H", "I", "J", "K", "L", "M",
               "N", "O", "P", "Q", "R", "S", "T", "U", "V", "W", "X", "Y", "Z">>
LowerCase == <<"a", "b", "c", "d", "e", "f", "g", "h", "i", "j", "k", "l", "m",
               "n", "o", "p", "q", "r", "s", "t", "u", "v", "w", "x", "y", "z">>

\* String.prototype.toLowerCase, one character
LowerChar(c) ==
    IF \E i \in 1..Len(UpperCase) : UpperCase[i] = c
    THEN LowerCase[CHOOSE i \in 1..Len(UpperCase) : UpperCase[i] = c]
    ELSE c

ToLowerCase(s) == [i \in 1..Len(s) |-> LowerChar(s[i])]

\* String.prototype.includes
Includes(s, sub) ==
    \E i \in 1..(Len(s) - Len(sub) + 1) : SubSeq(s, i, i + Len(sub) - 1) = sub

\* length of the longest run of characters of s, starting at index i, that
\* are of a class (a greedy  class*  of a regular expression)
RECURSIVE RunLen(_, _, _)
RunLen(s, i, class) ==
    IF i > Len(s) \/ ~InClass(class, s[i]) THEN 0 ELSE 1 + RunLen(s, i + 1, class)

\* the same run read backwards from index i
RECURSIVE RunLenBack(_, _, _)
RunLenBack(s, i, class) ==
    IF i < 1 \/ ~InClass(class, s[i]) THEN 0 ELSE 1 + RunLenBack(s, i - 1, class)

\* length of the longest run of characters of a class that ends s
TailLen(s, class) == RunLenBack(s, Len(s), class)

\* String.prototype.trim
Trim(s) ==
    LET a == RunLen(s, 1, "\\s")
        b == TailLen(s, "\\s")
    IN  IF a = Len(s) THEN <<>> ELSE SubSeq(s, a + 1, Len(s) - b)

\* text.trim().split(/\s+/).length
WordCount(text) ==
    LET t == Trim(text)
    IN  1 + Cardinality({i \in 2..Len(t) : IsSpace(t[i]) /\ ~IsSpace(t[i - 1])})

(***************************************************************************)
(* calculateTiming                                                         *)
(***************************************************************************)
\* one second, in the unit of startTime, duration, fadeIn and fadeOut
Second == 300

Min(a, b) == IF a < b THEN a ELSE b

Max(a, b) == IF a > b THEN a ELSE b

KwEllipsis == <<".", ".", ".">>

\* duration of one word: Second / wordsPerSecond
WordDuration(speechRate) ==
    CASE speechRate = "tres lent" -> Second             \* 1.0 words per second
      [] speechRate = "lent"      -> (2 * Second) \div 3  \* 1.5
      [] speechRate = "modere"    -> Second \div 2        \* 2.0
      [] OTHER                    -> (2 * Second) \div 5  \* 2.5 (rapide)

TransitionType(text) ==
    LET t == Trim(text)
        hasEllipsis         == Includes(text, KwEllipsis)
        endsWithPunctuation == Len(t) > 0 /\ t[Len(t)] \in {".", "!", "?"}
    IN  IF hasEllipsis THEN "crossfade"
        ELSE IF endsWithPunctuation THEN "cut"
        ELSE "overlap"

TransitionDuration(transitionType) ==
    CASE transitionType = "crossfade" -> Second          \* 1.0 s
      [] transitionType = "overlap"   -> Second \div 2     \* 0.5 s
      [] OTHER                        -> Second \div 5     \* 0.2 s

calculateTiming(text, speechRate) ==
    LET estimatedDuration == WordCount(text) * WordDuration(speechRate)
        transitionType    == TransitionType(text)
    IN  [estimatedDuration  |-> estimatedDuration,
         fadeIn             |-> Min(Second, estimatedDuration \div 10),
         fadeOut            |-> Min(Second, estimatedDuration \div 10),
         transitionType     |-> transitionType,
         transitionDuration |-> TransitionDuration(transitionType)]

(***************************************************************************)
(* analyzeTextEnvironments: conversion of the segments of the remote reply *)
(***************************************************************************)
\* .replace(/^\s*\d+\.\s*/, '')
StripLeadingNumber(s) ==
    LET a == RunLen(s, 1, "\\s")
        d == RunLen(s, a + 1, "\\d")
    IN  IF d >= 1 /\ a + d + 1 <= Len(s) /\ s[a + d + 1] = "."
        THEN SubSeq(s, a + d + 2 + RunLen(s, a + d + 2, "\\s"), Len(s))
        ELSE s

\* .replace(/^\s*[\d\.\s]+/, '')
StripLeadingNumbers(s) == SubSeq(s, RunLen(s, 1, "[\\d\\.\\s]") + 1, Len(s))

\* .replace(/[\d\.\s]+\s*$/, '')
StripTrailingNumbers(s) == SubSeq(s, 1, Len(s) - TailLen(s, "[\\d\\.\\s]"))

\* .replace(/\n\d+\.\s*/g, '\n'), from index i on
RECURSIVE StripListNumbers(_, _)
StripListNumbers(s, i) ==
    IF i > Len(s) THEN <<>>
    ELSE LET d == RunLen(s, i + 1, "\\d")
         IN  IF s[i] = "\n" /\ d >= 1 /\ i + d + 1 <= Len(s) /\ s[i + d + 1] = "."
             THEN <<"\n">> \o
                  StripListNumbers(s, i + d + 2 + RunLen(s, i + d + 2, "\\s"))
             ELSE <<s[i]>> \o StripListNumbers(s, i + 1)

\* .replace(/\s+\d+\s+/g, ' '), from index i on
RECURSIVE StripIsolatedNumbers(_, _)
StripIsolatedNumbers(s, i) ==
    IF i > Len(s) THEN <<>>
    ELSE LET a == RunLen(s, i, "\\s")
             d == RunLen(s, i + a, "\\d")
             c == RunLen(s, i + a + d, "\\s")
         IN  IF a >= 1 /\ d >= 1 /\ c >= 1
             THEN <<" ">> \o StripIsolatedNumbers(s, i + a + d + c)
             ELSE <<s[i]>> \o StripIsolatedNumbers(s, i + 1)

\* segment.text after the five replacements and the trim
CleanedText(text) ==
    Trim(StripIsolatedNumbers(
           StripListNumbers(
             StripTrailingNumbers(
               StripLeadingNumbers(
                 StripLeadingNumber(text))), 1), 1))

\* CleanText without the test of the length: the cleaned text is kept
\* however short it is
CleanTextNoRestore(text) == CleanedText(text)

\* the cleaned text of a segment of the reply, the original text when the
\* cleaning leaves fewer than 3 characters
CleanText(text) ==
    LET cleanedText == CleanedText(text)
    IN  IF Len(cleanedText) < 3 THEN text ELSE cleanedText

RemoteEmotionalTone(vocal) ==
    IF vocal.type = "gemissement" \/ vocal.intensity > 80 THEN "excite"
    ELSE IF vocal.type = "cri" \/ vocal.intensity > 90 THEN "jouissance"
    ELSE IF vocal.type = "murmure" \/ vocal.type = "chuchotement" THEN "murmure"
    ELSE IF vocal.intensity > 70 THEN "intense"
    ELSE IF vocal.intensity < 50 THEN "doux"
    ELSE "sensuel"

RemoteSpeechRate(rhythm) ==
    CASE rhythm = "tres lent" -> "tres lent"
      [] rhythm = "lent"      -> "lent"
      [] rhythm = "rapide"    -> "rapide"
      [] OTHER                -> "modere"

\* elevenlabsParams.speed of a segment of the reply
RemoteSpeed(rhythm) ==
    CASE rhythm = "tres lent" -> <<"2", "5", "%">>
      [] rhythm = "lent"      -> <<"3", "5", "%">>
      [] rhythm = "rapide"    -> <<"5", "5", "%">>
      [] OTHER                -> <<"4", "5", "%">>

RemoteVolume(intensity) ==
    IF intensity > 80 THEN "fort" ELSE IF intensity < 50 THEN "doux" ELSE "normal"

\* a segment before the timing is attached; the members of elevenlabsParams
\* are kept beside the others
Detection(text, environment, emotionalTone, speechRate, volume, elevenlabsParams) ==
    [segment          |-> text,
     environment      |-> environment,
     emotionalTone    |-> emotionalTone,
     speechRate       |-> speechRate,
     volume           |-> volume,
     stability        |-> elevenlabsParams.stability,
     similarity_boost |-> elevenlabsParams.similarity_boost,
     speed            |-> elevenlabsParams.speed,
     pitch_shift      |-> elevenlabsParams.pitch_shift]

\* the callback of enhancedSegments.map
ConvertSegment(segment) ==
    Detection(CleanText(segment.text),
              segment.environment,
              RemoteEmotionalTone(segment.vocal),
              RemoteSpeechRate(segment.vocal.rhythm),
              RemoteVolume(segment.vocal.intensity),
              [stability        |-> segment.elevenlabs.stability,
               similarity_boost |-> segment.elevenlabs.similarity_boost,
               speed            |-> RemoteSpeed(segment.vocal.rhythm),
               pitch_shift      |-> segment.vocal.pitch])

\* enhancedSegments.map(...)
ConvertSegments(list) == [k \in 1..Len(list) |-> ConvertSegment(list[k])]

(***************************************************************************)
(* The timeline: the second map of analyzeTextEnvironments and of          *)
(* analyzeTextLocally                                                      *)
(***************************************************************************)
WithTiming(segment, startTime, timing) ==
    [segment            |-> segment.segment,
     environment        |-> segment.environment,
     emotionalTone      |-> segment.emotionalTone,
     speechRate         |-> segment.speechRate,
     volume             |-> segment.volume,
     stability          |-> segment.stability,
     similarity_boost   |-> segment.similarity_boost,
     speed              |-> segment.speed,
     pitch_shift        |-> segment.pitch_shift,
     startTime          |-> startTime,
     duration           |-> timing.estimatedDuration,
     fadeIn             |-> timing.fadeIn,
     fadeOut            |-> timing.fadeOut,
     transitionType     |-> timing.transitionType,
     transitionDuration |-> timing.transitionDuration]

\* AdvanceTime with the test of the transition type left out: every segment
\* but the last overlaps its successor
AdvanceTimeAnyTransition(currentTime, timing, index, length) ==
    IF index < length - 1
    THEN currentTime + timing.estimatedDuration - timing.transitionDuration
    ELSE currentTime + timing.estimatedDuration

\* currentTime after the segment at (0-based) index of a list of length
AdvanceTime(currentTime, timing, index, length) ==
    IF timing.transitionType = "crossfade" /\ index < length - 1
    THEN currentTime + timing.estimatedDuration - timing.transitionDuration
    ELSE currentTime + timing.estimatedDuration

\* results.map((segment, index) => ...) from index on, with the running
\* currentTime; out is the part of the new list built so far
RECURSIVE AddTiming(_, _, _, _)
AddTiming(results, index, currentTime, out) ==
    IF index = Len(results)
    THEN [results |-> out, currentTime |-> currentTime]
    ELSE LET segment == results[index + 1]
             timing  == calculateTiming(segment.segment, segment.speechRate)
         IN  AddTiming(results, index + 1,
                       AdvanceTime(currentTime, timing, index, Len(results)),
                       Append(out, WithTiming(segment, currentTime, timing)))

(***************************************************************************)
(* analyzeTextLocally                                                      *)
(***************************************************************************)
KwPlage == <<"p", "l", "a", "g", "e">>
KwMer == <<"m", "e", "r">>
KwVague == <<"v", "a", "g", "u", "e">>
KwForet == <<"f", "o", "r", "ecirc", "t">>
KwBois == <<"b", "o", "i", "s">>
KwArbre == <<"a", "r", "b", "r", "e">>
KwPluie == <<"p", "l", "u", "i", "e">>
KwOrage == <<"o", "r", "a", "g", "e">>
KwVille == <<"v", "i", "l", "l", "e">>
KwRue == <<"r", "u", "e">>
KwGemis == <<"g", "eacute", "m", "i", "s">>
KwSoupir == <<"s", "o", "u", "p", "i", "r">>
KwExcit == <<"e", "x", "c", "i", "t">>
KwExtase == <<"e", "x", "t", "a", "s", "e">>
KwJouir == <<"j", "o", "u", "i", "r">>
KwOrgasme == <<"o", "r", "g", "a", "s", "m", "e">>
KwMurmure == <<"m", "u", "r", "m", "u", "r", "e">>
KwChuchot == <<"c", "h", "u", "c", "h", "o", "t">>
KwFort == <<"f", "o", "r", "t">>
KwIntense == <<"i", "n", "t", "e", "n", "s", "e">>
KwViolent == <<"v", "i", "o", "l", "e", "n", "t">>
KwDoux == <<"d", "o", "u", "x">>
KwTendre == <<"t", "e", "n", "d", "r", "e">>

\* text.split(/\n\n+/) from index i on; cur is the piece being read
RECURSIVE SplitParagraphs(_, _, _)
SplitParagraphs(s, i, cur) ==
    IF i > Len(s) THEN <<cur>>
    ELSE LET n == RunLen(s, i, "\\n")
         IN  IF n >= 2
             THEN <<cur>> \o SplitParagraphs(s, i + n, <<>>)
             ELSE SplitParagraphs(s, i + 1, Append(cur, s[i]))

NonBlank(p) == Len(Trim(p)) > 0

\* the paragraphs of the text, the whole text when there is none
LocalSegments(text) ==
    LET paragraphs == SelectSeq(SplitParagraphs(text, 1, <<>>), NonBlank)
    IN  IF Len(paragraphs) > 0 THEN paragraphs ELSE <<text>>

LocalEnvironment(segment) ==
    LET low == ToLowerCase(segment)
    IN  IF Includes(low, KwPlage) \/ Includes(low, KwMer) \/ Includes(low, KwVague)
        THEN "plage"
        ELSE IF Includes(low, KwForet) \/ Includes(low, KwBois) \/ Includes(low, KwArbre)
        THEN "foret"
        ELSE IF Includes(low, KwPluie) \/ Includes(low, KwOrage)
        THEN "pluie"
        ELSE IF Includes(low, KwVille) \/ Includes(low, KwRue)
        THEN "ville"
        ELSE "chambre"

\* LocalEmotionalTone with the tests in the opposite order: the last match
\* wins
LocalEmotionalToneLastMatch(segment) ==
    LET low == ToLowerCase(segment)
    IN  IF Includes(low, KwDoux) \/ Includes(low, KwTendre)
        THEN "doux"
        ELSE IF Includes(low, KwFort) \/ Includes(low, KwIntense) \/ Includes(low, KwViolent)
        THEN "intense"
        ELSE IF Includes(low, KwMurmure) \/ Includes(low, KwChuchot)
        THEN "murmure"
        ELSE IF Includes(low, KwExtase) \/ Includes(low, KwJouir) \/ Includes(low, KwOrgasme)
        THEN "jouissance"
        ELSE IF Includes(low, KwGemis) \/ Includes(low, KwSoupir) \/ Includes(low, KwExcit)
        THEN "excite"
        ELSE "sensuel"

LocalEmotionalTone(segment) ==
    LET low == ToLowerCase(segment)
    IN  IF Includes(low, KwGemis) \/ Includes(low, KwSoupir) \/ Includes(low, KwExcit)
        THEN "excite"
        ELSE IF Includes(low, KwExtase) \/ Includes(low, KwJouir) \/ Includes(low, KwOrgasme)
        THEN "jouissance"
        ELSE IF Includes(low, KwMurmure) \/ Includes(low, KwChuchot)
        THEN "murmure"
        ELSE IF Includes(low, KwFort) \/ Includes(low, KwIntense) \/ Includes(low, KwViolent)
        THEN "intense"
        ELSE IF Includes(low, KwDoux) \/ Includes(low, KwTendre)
        THEN "doux"
        ELSE "sensuel"

LocalStability(emotionalTone) ==
    CASE emotionalTone = "jouissance" -> 300
      [] emotionalTone = "excite"     -> 400
      [] emotionalTone = "murmure"    -> 800
      [] emotionalTone = "intense"    -> 400
      [] OTHER                        -> 650

LocalSimilarity(emotionalTone) ==
    CASE emotionalTone = "jouissance" -> 950
      [] emotionalTone = "excite"     -> 900
      [] emotionalTone = "murmure"    -> 750
      [] emotionalTone = "intense"    -> 900
      [] OTHER                        -> 800

LocalPitchShift(emotionalTone) ==
    CASE emotionalTone = "murmure"    -> -10
      [] emotionalTone = "jouissance" -> 5
      [] OTHER                        -> -5

\* the callback of segments.map
ClassifySegment(segment) ==
    LET emotionalTone == LocalEmotionalTone(segment)
    IN  Detection(segment,
                  LocalEnvironment(segment),
                  emotionalTone,
                  "lent",
                  "normal",
                  [stability        |-> LocalStability(emotionalTone),
                   similarity_boost |-> LocalSimilarity(emotionalTone),
                   speed            |-> <<"3", "5", "%">>,
                   pitch_shift      |-> LocalPitchShift(emotionalTone)])

\* the segment of the catch block of analyzeTextLocally
DefaultDetection(text) ==
    [segment            |-> text,
     environment        |-> "chambre",
     emotionalTone      |-> "sensuel",
     speechRate         |-> "lent",
     volume             |-> "normal",
     stability          |-> 650,
     similarity_boost   |-> 800,
     speed              |-> <<"3", "5", "%">>,
     pitch_shift        |-> -5,
     startTime          |-> 0,
     duration           |-> 10 * Second,
     fadeIn             |-> Second \div 2,
     fadeOut            |-> Second \div 2,
     transitionType     |-> "crossfade",
     transitionDuration |-> Second \div 2]

\* segments.map(...) over the paragraphs
ClassifySegments(list) == [k \in 1..Len(list) |-> ClassifySegment(list[k])]

\* analyzeTextLocally without its catch block: the TypeError of text.split
\* rejects the promise
analyzeTextLocallyUncaught(text) ==
    IF ~IsString(text)
    THEN [path |-> "rejected", results |-> <<>>, currentTime |-> 0]
    ELSE LET timed == AddTiming(ClassifySegments(LocalSegments(text)), 0, 0, <<>>)
         IN  [path |-> "local", results |-> timed.results,
              currentTime |-> timed.currentTime]

\* text.split throws when the text is no string; nothing else of the try
\* block can throw
analyzeTextLocally(text) ==
    IF ~IsString(text)
    THEN [path |-> "default", results |-> <<DefaultDetection(text)>>, currentTime |-> 0]
    ELSE LET timed == AddTiming(ClassifySegments(LocalSegments(text)), 0, 0, <<>>)
         IN  [path |-> "local", results |-> timed.results,
              currentTime |-> timed.currentTime]

(***************************************************************************)
(* analyzeTextWithGrok and analyzeTextEnvironments                         *)
(***************************************************************************)
\* the segment of the catch block of analyzeTextWithGrok
DefaultSegment(text) ==
    [text        |-> text,
     vocal       |-> [intensity |-> 70, type |-> "normal", rhythm |-> "lent", pitch |-> -5],
     elevenlabs  |-> [stability |-> 650, similarity_boost |-> 800],
     environment |-> "chambre"]

\* What analyzeTextWithGrok returns.  A reply of kind "error" stands for
\* every failure caught at line 245 (rejected fetch, status not ok, no JSON
\* found, JSON.parse failure); a reply of kind "json" was parsed, and its
\* segments member is returned as it is: undefined (defined = FALSE) when the
\* parsed object has no such member.
analyzeTextWithGrok(text, reply) ==
    IF reply.kind = "error"
    THEN [defined |-> TRUE, list |-> <<DefaultSegment(text)>>]
    ELSE [defined |-> reply.defined, list |-> reply.segments]

\* enhancedSegments.map(...) throws a TypeError when enhancedSegments is
\* undefined and when the text of a segment is no string (segment.text.replace)
ConversionThrows(enhancedSegments) ==
    \/ ~enhancedSegments.defined
    \/ \E k \in 1..Len(enhancedSegments.list) : ~IsString(enhancedSegments.list[k].text)

analyzeTextEnvironments(text, reply) ==
    LET enhancedSegments == analyzeTextWithGrok(text, reply)
    IN  IF ConversionThrows(enhancedSegments)
        THEN analyzeTextLocally(text)
        ELSE LET timed == AddTiming(ConvertSegments(enhancedSegments.list), 0, 0, <<>>)
             IN  [path |-> "remote", results |-> timed.results,
                  currentTime |-> timed.currentTime]

(***************************************************************************)
(* analyzeTextWithGrok: the JSON of the reply                              *)
(*   The content of a reply is a sequence of tokens: the fence of three    *)
(*   backquotes ("fence"), the word json, a word of prose, a string        *)
(*   literal of JSON with its quotes, and the single characters            *)
(*   { } [ ] : , . space, newline and digits.                              *)
(***************************************************************************)
NoMatch == [found |-> FALSE, whole |-> <<>>, group |-> <<>>]

Matched(whole, group) == [found |-> TRUE, whole |-> whole, group |-> group]

\* index of the fence that ends the run of white space starting at index q,
\* 0 when the run is not followed by a fence
FenceAfter(s, q) ==
    LET f == q + RunLen(s, q, "\\s")
    IN  IF f <= Len(s) /\ s[f] = "fence" THEN f ELSE 0

\* ([\s\S]*?)\n\s*``` from index q on: index of the first newline that
\* white space and a fence follow, 0 when there is none
RECURSIVE ClosingNewline(_, _)
ClosingNewline(s, q) ==
    IF q > Len(s) THEN 0
    ELSE IF s[q] = "\n" /\ FenceAfter(s, q + 1) # 0 THEN q
    ELSE ClosingNewline(s, q + 1)

\* opener \s*\n([\s\S]*?)\n\s*``` tried at index p: \s* is greedy, so
\* the newline it leaves is the last one of the run of white space after
\* which the rest matches
MatchFenceAt(s, p, opener) ==
    LET a == p + Len(opener)
        E == { e \in a..(a + RunLen(s, a, "\\s") - 1) :
                   s[e] = "\n" /\ ClosingNewline(s, e + 1) # 0 }
    IN  IF p + Len(opener) - 1 > Len(s) \/ SubSeq(s, p, p + Len(opener) - 1) # opener
           \/ E = {}
        THEN NoMatch
        ELSE LET e == CHOOSE e \in E : \A d \in E : d <= e
                 q == ClosingNewline(s, e + 1)
             IN  Matched(SubSeq(s, p, FenceAfter(s, q + 1)), SubSeq(s, e + 1, q - 1))

\* the leftmost match of the pattern, from index p on
RECURSIVE MatchFence(_, _, _)
MatchFence(s, p, opener) ==
    IF p > Len(s) THEN NoMatch
    ELSE IF MatchFenceAt(s, p, opener).found THEN MatchFenceAt(s, p, opener)
    ELSE MatchFence(s, p + 1, opener)

\* /({[\s\S]*})/ : from the first { to the last }
MatchBraces(s) ==
    LET opens  == { p \in 1..Len(s) : s[p] = "{" /\ \E q \in (p + 1)..Len(s) : s[q] = "}" }
    IN  IF opens = {} THEN NoMatch
        ELSE LET p == CHOOSE p \in opens : \A o \in opens : p <= o
                 q == CHOOSE q \in p..Len(s) :
                          s[q] = "}" /\ \A r \in (q + 1)..Len(s) : s[r] # "}"
             IN  Matched(SubSeq(s, p, q), SubSeq(s, p, q))

\* "segments"\s*:\s*\[([\s\S]*?)\] tried at index p: index of the closing
\* bracket, 0 when there is no match at p
SegmentsSpanEnd(s, p) ==
    LET colon   == p + 1 + RunLen(s, p + 1, "\\s")
        bracket == colon + 1 + RunLen(s, colon + 1, "\\s")
        closes  == { q \in (bracket + 1)..Len(s) : s[q] = "]" }
    IN  IF /\ s[p] = "\"segments\""
           /\ colon <= Len(s) /\ s[colon] = ":"
           /\ bracket <= Len(s) /\ s[bracket] = "["
           /\ closes # {}
        THEN CHOOSE q \in closes : \A r \in closes : q <= r
        ELSE 0

\* /"segments"\s*:\s*\[([\s\S]*?)\]/
MatchSegmentsSpan(s) ==
    LET starts == { p \in 1..Len(s) : SegmentsSpanEnd(s, p) # 0 }
    IN  IF starts = {} THEN NoMatch
        ELSE LET p == CHOOSE p \in starts : \A o \in starts : p <= o
                 q == SegmentsSpanEnd(s, p)
                 bracket == CHOOSE b \in p..q :
                                s[b] = "[" /\ \A r \in p..(b - 1) : s[r] # "["
             IN  Matched(SubSeq(s, p, q), SubSeq(s, bracket + 1, q - 1))

\* content.match(jsonPatterns[n - 1])
MatchPattern(n, content) ==
    CASE n = 1 -> MatchFence(content, 1, <<"fence", "json">>)
      [] n = 2 -> MatchFence(content, 1, <<"fence">>)
      [] n = 3 -> MatchBraces(content)
      [] n = 4 -> MatchSegmentsSpan(content)

\* match[1] || match[0]
Captured(match) == IF Len(match.group) > 0 THEN match.group ELSE match.whole

\* .replace(/^\d+\.\s*/, '')
StripStartNumber(s) ==
    LET d == RunLen(s, 1, "\\d")
    IN  IF d >= 1 /\ d + 1 <= Len(s) /\ s[d + 1] = "."
        THEN SubSeq(s, d + 2 + RunLen(s, d + 2, "\\s"), Len(s))
        ELSE s

\* the four replacements and the trim applied to jsonContent
CleanJson(jsonContent) ==
    Trim(StripStartNumber(
           StripListNumbers(
             StripTrailingNumbers(
               StripLeadingNumbers(jsonContent)), 1)))

\* what is not a complete object is wrapped: {"segments":[ ... ]}
WrapJson(jsonContent) ==
    IF Len(jsonContent) > 0 /\ jsonContent[1] = "{"
    THEN jsonContent
    ELSE <<"{", "\"segments\"", ":", "[">> \o jsonContent \o <<"]", "}">>

\* the text handed to JSON.parse for a match
PreparedJson(match) == WrapJson(CleanJson(Captured(match)))

(***************************************************************************)
(* JSON.parse, on tokens.  A value is a node [t, s, items]: t is "string", *)
(* "number", "array", "object" or "member"; s holds the tokens of a string *)
(* or number, and the key of a member; items holds the elements of an      *)
(* array, the members of an object, and the value of a member.             *)
(***************************************************************************)
StringLiterals == {"\"segments\"", "\"text\"", "\"a\"", "\"b\""}

Node(t, s, items) == [t |-> t, s |-> s, items |-> items]

SyntaxError == [ok |-> FALSE, next |-> 0, node |-> Node("none", <<>>, <<>>)]

Parsed(next, node) == [ok |-> TRUE, next |-> next, node |-> node]

SkipSpace(s, i) == i + RunLen(s, i, "\\s")

\* a number at index j: digits, then possibly a point and digits
ParseNumber(s, j) ==
    LET d == RunLen(s, j, "\\d")
        f == IF j + d <= Len(s) /\ s[j + d] = "." THEN RunLen(s, j + d + 1, "\\d") ELSE 0
    IN  IF j + d <= Len(s) /\ s[j + d] = "."
        THEN IF f = 0 THEN SyntaxError
             ELSE Parsed(j + d + 1 + f, Node("number", SubSeq(s, j, j + d + f), <<>>))
        ELSE Parsed(j + d, Node("number", SubSeq(s, j, j + d - 1), <<>>))

RECURSIVE ParseValue(_, _)
RECURSIVE ParseMembers(_, _, _)
RECURSIVE ParseElements(_, _, _)

\* the members of an object from index k on, after white space; acc holds
\* the members read so far
ParseMembers(s, k, acc) ==
    LET colon == SkipSpace(s, k + 1)
    IN  IF k > Len(s) \/ s[k] \notin StringLiterals THEN SyntaxError
        ELSE IF colon > Len(s) \/ s[colon] # ":" THEN SyntaxError
        ELSE LET value == ParseValue(s, colon + 1)
                 after == SkipSpace(s, value.next)
                 all   == Append(acc, Node("member", <<s[k]>>, <<value.node>>))
             IN  IF ~value.ok \/ after > Len(s) THEN SyntaxError
                 ELSE IF s[after] = "}" THEN Parsed(after + 1, Node("object", <<>>, all))
                 ELSE IF s[after] = "," THEN ParseMembers(s, SkipSpace(s, after + 1), all)
                 ELSE SyntaxError

\* the elements of an array from index k on; acc holds the elements read
ParseElements(s, k, acc) ==
    LET value == ParseValue(s, k)
        after == SkipSpace(s, value.next)
        all   == Append(acc, value.node)
    IN  IF ~value.ok \/ after > Len(s) THEN SyntaxError
        ELSE IF s[after] = "]" THEN Parsed(after + 1, Node("array", <<>>, all))
        ELSE IF s[after] = "," THEN ParseElements(s, after + 1, all)
        ELSE SyntaxError

\* the value that starts at index i, after white space
ParseValue(s, i) ==
    LET j == SkipSpace(s, i)
        k == SkipSpace(s, j + 1)
    IN  IF j > Len(s) THEN SyntaxError
        ELSE IF s[j] = "{"
        THEN IF k <= Len(s) /\ s[k] = "}"
             THEN Parsed(k + 1, Node("object", <<>>, <<>>))
             ELSE ParseMembers(s, k, <<>>)
        ELSE IF s[j] = "["
        THEN IF k <= Len(s) /\ s[k] = "]"
             THEN Parsed(k + 1, Node("array", <<>>, <<>>))
             ELSE ParseElements(s, k, <<>>)
        ELSE IF s[j] \in StringLiterals THEN Parsed(j + 1, Node("string", <<s[j]>>, <<>>))
        ELSE IF IsDigit(s[j]) THEN ParseNumber(s, j)
        ELSE SyntaxError

\* JSON.parse: one value, white space around it, nothing else
JsonParse(s) ==
    LET value == ParseValue(s, 1)
    IN  IF value.ok /\ SkipSpace(s, value.next) = Len(s) + 1 THEN value ELSE SyntaxError

\* parsedResponse.segments: the value of the last member named segments
\* of an object; defined is FALSE when the object has none
SegmentsMember(node) ==
    LET named == { k \in 1..Len(node.items) : node.items[k].s = <<"\"segments\"">> }
    IN  IF node.t # "object" \/ named = {}
        THEN [kind |-> "json", defined |-> FALSE, value |-> Node("none", <<>>, <<>>)]
        ELSE LET k == CHOOSE k \in named : \A j \in named : j <= k
             IN  [kind |-> "json", defined |-> TRUE, value |-> node.items[k].items[1]]

\* the catch block was entered: the default segment is returned
Failed == [kind |-> "error", defined |-> FALSE, value |-> Node("none", <<>>, <<>>)]

\* JSON.parse(jsonContent).segments
ParseSegments(jsonContent) ==
    LET parsed == JsonParse(jsonContent)
    IN  IF parsed.ok THEN SegmentsMember(parsed.node) ELSE Failed

\* the first pattern, from the n-th on, that matches the content; 0 when
\* none does
RECURSIVE FirstMatching(_, _)
FirstMatching(content, n) ==
    IF n > 4 THEN 0
    ELSE IF MatchPattern(n, content).found THEN n
    ELSE FirstMatching(content, n + 1)

\* the first pattern that matches decides: its text is cleaned, wrapped
\* and parsed, and no other pattern is tried
ExtractSegments(content) ==
    LET n == FirstMatching(content, 1)
    IN  IF n = 0 THEN Failed
        ELSE ParseSegments(PreparedJson(MatchPattern(n, content)))

(***************************************************************************)
(* Numbers that may be NaN                                                 *)
(***************************************************************************)
Num(v) == [nan |-> FALSE, val |-> v]

NaN == [nan |-> TRUE, val |-> 0]

MathMin(a, b) == IF a.nan \/ b.nan THEN NaN ELSE Num(Min(a.val, b.val))

MathMax(a, b) == IF a.nan \/ b.nan THEN NaN ELSE Num(Max(a.val, b.val))

(***************************************************************************)
(* generateVoiceWithEnvironment: the parameters of one segment's request   *)
(***************************************************************************)
\* s.replace('%', ''): the first "%" removed
RemovePercent(s) ==
    IF \E k \in 1..Len(s) : s[k] = "%"
    THEN LET k == CHOOSE k \in 1..Len(s) :
                      s[k] = "%" /\ \A j \in 1..(k - 1) : s[j] # "%"
         IN  SubSeq(s, 1, k - 1) \o SubSeq(s, k + 1, Len(s))
    ELSE s

DigitValue(c) ==
    CASE c = "0" -> 0 [] c = "1" -> 1 [] c = "2" -> 2 [] c = "3" -> 3 [] c = "4" -> 4
      [] c = "5" -> 5 [] c = "6" -> 6 [] c = "7" -> 7 [] c = "8" -> 8 [] c = "9" -> 9

\* the value of the digits s[i..j] read in base 10
RECURSIVE DecimalValue(_, _, _)
DecimalValue(s, i, j) ==
    IF j < i THEN 0 ELSE 10 * DecimalValue(s, i, j - 1) + DigitValue(s[j])

\* parseInt(s, 10) of an unsigned text: leading white space, then the digits
ParseInt(s) ==
    LET a == RunLen(s, 1, "\\s")
        d == RunLen(s, a + 1, "\\d")
    IN  IF d = 0 THEN NaN ELSE Num(DecimalValue(s, a + 1, a + d))

\* the rate chosen from the emotion, before the parameters of the analysis
EmotionSpeed(emotionalTone) ==
    CASE emotionalTone = "jouissance" -> 35
      [] emotionalTone = "excite"     -> 32
      [] emotionalTone = "murmure"    -> 20
      [] emotionalTone = "sensuel"    -> 25
      [] emotionalTone = "intense"    -> 30
      [] OTHER                        -> 28

\* LimitSpeed without the limit
LimitSpeedUnlimited(speedValue) == speedValue

\* Math.min(speedValue, 35)
LimitSpeed(speedValue) == MathMin(speedValue, Num(35))

\* the percentage of <prosody rate="..%">; every segment of every path
\* carries elevenlabsParams, and its speed replaces the emotion's rate when
\* it is a non-empty string
ProsodyRate(segment) ==
    IF Len(segment.speed) > 0
    THEN LimitSpeed(ParseInt(RemovePercent(segment.speed)))
    ELSE Num(EmotionSpeed(segment.emotionalTone))

\* the request posted for the segment at (0-based) index i
SynthesisRequest(segment, i) ==
    [index            |-> i,
     rate             |-> ProsodyRate(segment),
     stability        |-> segment.stability,
     similarity_boost |-> segment.similarity_boost]

(***************************************************************************)
(* getVoiceSettings                                                        *)
(*   analysis.intensity and analysis.emotionalProgression are given in     *)
(*   hundredths; the scores of the result count 1/1000000.                 *)
(***************************************************************************)
KnownEmotions == {"sensuel", "excite", "jouissance", "murmure", "intense", "doux"}

\* names that every object literal inherits from Object.prototype; the
\* value found under such a name is a function or an object, hence truthy,
\* with no stability and no similarity_boost
InheritedNames == {"constructor", "toString", "valueOf", "hasOwnProperty", "__proto__"}

\* baseSettings, in thousandths
baseSettings(emotion) ==
    CASE emotion = "sensuel"    -> [stability |-> Num(550), similarity_boost |-> Num(880)]
      [] emotion = "excite"     -> [stability |-> Num(300), similarity_boost |-> Num(920)]
      [] emotion = "jouissance" -> [stability |-> Num(200), similarity_boost |-> Num(950)]
      [] emotion = "murmure"    -> [stability |-> Num(700), similarity_boost |-> Num(820)]
      [] emotion = "intense"    -> [stability |-> Num(320), similarity_boost |-> Num(900)]
      [] emotion = "doux"       -> [stability |-> Num(650), similarity_boost |-> Num(830)]

\* baseSettings[emotion] || baseSettings.sensuel; reading stability of an
\* inherited member gives undefined, and arithmetic on it NaN
SelectSettings(emotion) ==
    IF emotion \in KnownEmotions THEN baseSettings(emotion)
    ELSE IF emotion \in InheritedNames THEN [stability |-> NaN, similarity_boost |-> NaN]
    ELSE baseSettings("sensuel")

\* settings.stability * (1 - analysis.intensity * 0.3)
AdjustStability(stability, intensity) ==
    IF stability.nan THEN NaN ELSE Num(stability.val * (1000 - 3 * intensity))

\* settings.similarity_boost + analysis.emotionalProgression * 0.15
AdjustSimilarity(similarity, progression) ==
    IF similarity.nan THEN NaN ELSE Num(similarity.val * 1000 + progression * 1500)

getVoiceSettings(emotion, analysis) ==
    LET settings == SelectSettings(emotion)
    IN  [stability |->
             MathMax(Num(150000), MathMin(Num(750000),
                 AdjustStability(settings.stability, analysis.intensity))),
         similarity_boost |->
             MathMax(Num(750000), MathMin(Num(980000),
                 AdjustSimilarity(settings.similarity_boost,
                                  analysis.emotionalProgression)))]

(***************************************************************************)
(* calculateEmotionTransitionDuration                                      *)
(*   A value returned is a number of milliseconds or something that is no  *)
(*   number (a function or an object inherited from Object.prototype).     *)
(***************************************************************************)
Millis(n) == [isNumber |-> TRUE, ms |-> n]

\* a function or an object found under an inherited name
InheritedMember == [isNumber |-> FALSE, ms |-> 0]

\* transitionMap[currentEmotion][nextEmotion] for two distinct known labels
transitionMap(currentEmotion, nextEmotion) ==
    LET pair == {currentEmotion, nextEmotion}
    IN  CASE pair = {"sensuel", "excite"}       -> 600
          [] pair = {"sensuel", "jouissance"}   -> 800
          [] pair = {"sensuel", "murmure"}      -> 400
          [] pair = {"sensuel", "intense"}      -> 700
          [] pair = {"sensuel", "doux"}         -> 300
          [] pair = {"excite", "jouissance"}    -> 400
          [] pair = {"excite", "murmure"}       -> 700
          [] pair = {"excite", "intense"}       -> 500
          [] pair = {"excite", "doux"}          -> 800
          [] pair = {"jouissance", "murmure"}   -> 900
          [] pair = {"jouissance", "intense"}   -> 300
          [] pair = {"jouissance", "doux"}      -> 1000
          [] pair = {"murmure", "intense"}      -> 800
          [] pair = {"murmure", "doux"}         -> 300
          [] pair = {"intense", "doux"}         -> 900

\* transitionMap[currentEmotion]?.[nextEmotion] is a number: the pair is in
\* the table
ListedPair(currentEmotion, nextEmotion) ==
    /\ currentEmotion \in KnownEmotions
    /\ nextEmotion \in KnownEmotions
    /\ currentEmotion # nextEmotion

\* transitionMap[currentEmotion]?.[nextEmotion] is a truthy value that is no
\* number: nextEmotion names a member that the row, or the function or
\* object found under an inherited currentEmotion, inherits; the one such
\* member that is null is Object.prototype.__proto__
InheritedPair(currentEmotion, nextEmotion) ==
    /\ currentEmotion \in KnownEmotions \cup InheritedNames
    /\ nextEmotion \in InheritedNames
    /\ ~(currentEmotion = "__proto__" /\ nextEmotion = "__proto__")

\* transitionMap[currentEmotion]?.[nextEmotion] || 500
calculateEmotionTransitionDuration(currentEmotion, nextEmotion) ==
    IF ListedPair(currentEmotion, nextEmotion)
    THEN Millis(transitionMap(currentEmotion, nextEmotion))
    ELSE IF InheritedPair(currentEmotion, nextEmotion) THEN InheritedMember
    ELSE Millis(500)

(***************************************************************************)
(* mapEnvironmentToSounds                                                  *)
(***************************************************************************)
\* Object.entries(environmentSounds): the keys in the order of the literal
environmentSounds ==
    << [key |-> <<"p", "l", "a", "g", "e">>,
        sounds |-> <<"ocean-waves-112906.mp3", "sea-and-seagull-wave-5932.mp3">>],
       [key |-> <<"m", "e", "r">>,
        sounds |-> <<"ocean-waves-112906.mp3", "sea-wave-34088.mp3">>],
       [key |-> <<"o", "c", "eacute", "a", "n">>,
        sounds |-> <<"ocean-waves-112906.mp3", "sea-and-seagull-wave-5932.mp3">>],
       [key |-> <<"f", "o", "r", "ecirc", "t">>,
        sounds |-> <<"forest-ambience-296528.mp3", "bird-333090.mp3">>],
       [key |-> <<"b", "o", "i", "s">>,
        sounds |-> <<"forest-ambience-296528.mp3", "bird-333090.mp3">>],
       [key |-> <<"p", "l", "u", "i", "e">>,
        sounds |-> <<"light-spring-rain-nature-sounds-331710.mp3", "calm-nature-sounds-196258.mp3">>],
       [key |-> <<"o", "r", "a", "g", "e">>,
        sounds |-> <<"light-spring-rain-nature-sounds-331710.mp3", "calm-nature-sounds-196258.mp3">>],
       [key |-> <<"v", "i", "l", "l", "e">>,
        sounds |-> <<"city-ambience-9270.mp3", "opening-the-front-door-210347.mp3">>],
       [key |-> <<"r", "u", "e">>,
        sounds |-> <<"city-ambience-9270.mp3", "opening-the-front-door-210347.mp3">>],
       [key |-> <<"c", "h", "a", "m", "b", "r", "e">>,
        sounds |-> <<"mid-nights-sound-291477.mp3", "main-door-opening-closing-38280.mp3">>],
       [key |-> <<"l", "i", "t">>,
        sounds |-> <<"mid-nights-sound-291477.mp3", "main-door-opening-closing-38280.mp3">>],
       [key |-> <<"r", "u", "i", "s", "s", "e", "a", "u">>,
        sounds |-> <<"relaxing-mountains-rivers-streams-running-water-18178.mp3", "river-26984.mp3">>],
       [key |-> <<"r", "i", "v", "i", "egrave", "r", "e">>,
        sounds |-> <<"relaxing-mountains-rivers-streams-running-water-18178.mp3", "river-26984.mp3">>],
       [key |-> <<"v", "e", "n", "t">>,
        sounds |-> <<"windy-hut-fx-64675.mp3">>],
       [key |-> <<"n", "a", "t", "u", "r", "e">>,
        sounds |-> <<"calm-nature-sounds-196258.mp3", "bird-333090.mp3">>],
       [key |-> <<"p", "o", "r", "t", "e">>,
        sounds |-> <<"main-door-opening-closing-38280.mp3", "opening-the-front-door-210347.mp3">>],
       [key |-> <<"n", "u", "i", "t">>,
        sounds |-> <<"mid-nights-sound-291477.mp3">>],
       [key |-> <<"d", "e", "f", "a", "u", "l", "t">>,
        sounds |-> <<"calm-nature-sounds-196258.mp3">>] >>

\* .normalize("NFD") and the removal of the combining marks, one
\* character: the accent of a letter is split off and removed
StripAccent(c) ==
    CASE c = "eacute" -> "e"
      [] c = "egrave" -> "e"
      [] c = "ecirc"  -> "e"
      [] c = "agrave" -> "a"
      [] OTHER        -> c

StripAccents(s) == [k \in 1..Len(s) |-> StripAccent(s[k])]

\* .replace(/\s+/g, '_'), from index i on
RECURSIVE SpacesToUnderscore(_, _)
SpacesToUnderscore(s, i) ==
    IF i > Len(s) THEN <<>>
    ELSE LET a == RunLen(s, i, "\\s")
         IN  IF a >= 1
             THEN <<"_">> \o SpacesToUnderscore(s, i + a)
             ELSE <<s[i]>> \o SpacesToUnderscore(s, i + 1)

\* lower case, no accents, white space to underscore
Normalize(s) == SpacesToUnderscore(StripAccents(ToLowerCase(s)), 1)

\* environmentSounds.default
DefaultSounds == environmentSounds[Len(environmentSounds)].sounds

\* the loop over the entries from (1-based) index k on, with the test of
\* one direction only: the label contains the key
RECURSIVE SearchSoundsOneWay(_, _)
SearchSoundsOneWay(normalizedEnv, k) ==
    IF k > Len(environmentSounds) THEN DefaultSounds
    ELSE LET normalizedKey == Normalize(environmentSounds[k].key)
         IN  IF Includes(normalizedEnv, normalizedKey)
             THEN environmentSounds[k].sounds
             ELSE SearchSoundsOneWay(normalizedEnv, k + 1)

\* the loop over the entries from (1-based) index k on
RECURSIVE SearchSounds(_, _)
SearchSounds(normalizedEnv, k) ==
    IF k > Len(environmentSounds) THEN DefaultSounds
    ELSE LET normalizedKey == Normalize(environmentSounds[k].key)
         IN  IF Includes(normalizedEnv, normalizedKey)
                \/ Includes(normalizedKey, normalizedEnv)
             THEN environmentSounds[k].sounds
             ELSE SearchSounds(normalizedEnv, k + 1)

mapEnvironmentToSounds(environment) == SearchSounds(Normalize(environment), 1)

(***************************************************************************)
(* The inputs of the model                                                 *)
(***************************************************************************)
\* "Elle murmure doucement a mon oreille."
\* "Oh...", a blank line, "Oui."
\* "Sur la plage, elle gemit fort", a blank line, "Viens..."
TextMurmure ==
    <<"E", "l", "l", "e", " ", "m", "u", "r", "m", "u", "r", "e", " ", "d", "o", "u", "c", "e", "m", "e", "n", "t", " ", "agrave", " ", "m", "o", "n", " ", "o", "r", "e", "i", "l", "l", "e", ".">>
TextOhOui ==
    <<"O", "h", ".", ".", ".", "\n", "\n", "O", "u", "i", ".">>
TextPlage ==
    <<"S", "u", "r", " ", "l", "a", " ", "p", "l", "a", "g", "e", ",", " ", "e", "l", "l", "e", " ", "g", "eacute", "m", "i", "t", " ", "f", "o", "r", "t", "\n", "\n", "V", "i", "e", "n", "s", ".", ".", ".">>

\* "Un Soupir doux, rue de la Mer": keywords of two emotions and of two
\* environments, two of them with a capital letter
TextSoupir ==
    <<"U", "n", " ", "S", "o", "u", "p", "i", "r", " ", "d", "o", "u", "x", ",", " ", "r", "u", "e", " ", "d", "e", " ", "l", "a", " ", "M", "e", "r">>
\* the empty text, and a text of white space only
TextEmpty == <<>>
TextBlank == <<" ", "\n">>

\* the texts a caller that respects the declared type passes, and all texts
StringTexts == {TextMurmure, TextOhOui, TextPlage, TextSoupir, TextEmpty, TextBlank}

InputTexts == StringTexts \cup {NullText}

\* texts of the segments of a reply: "Oh... oui", "Viens.", "Oui !",
\* "1. Attends... je viens vite"
ReplyTextOhOui ==
    <<"O", "h", ".", ".", ".", " ", "o", "u", "i">>
ReplyTextViens ==
    <<"V", "i", "e", "n", "s", ".">>
ReplyTextOui ==
    <<"O", "u", "i", " ", "!">>
ReplyTextAttends ==
    <<"1", ".", " ", "A", "t", "t", "e", "n", "d", "s", ".", ".", ".", " ", "j", "e", " ", "v", "i", "e", "n", "s", " ", "v", "i", "t", "e">>
\* "1. 2.": a text of which the cleaning leaves nothing
ReplyTextNumbers ==
    <<"1", ".", " ", "2", ".">>

\* vocal, elevenlabs and environment members of the segments of a reply:
\* one per rhythm (tres lent, lent, normal, rapide, another word), with
\* every vocal type and with intensities on both sides of 50, 70, 80 and 90
ProfileMurmure ==
    [vocal       |-> [intensity |-> 20, type |-> "murmure", rhythm |-> "tres lent",
                      pitch |-> -20],
     elevenlabs  |-> [stability |-> 700, similarity_boost |-> 820],
     environment |-> "chambre"]

ProfileSensuel ==
    [vocal       |-> [intensity |-> 55, type |-> "sensuel", rhythm |-> "lent",
                      pitch |-> -12],
     elevenlabs  |-> [stability |-> 550, similarity_boost |-> 880],
     environment |-> "chambre"]

ProfileGemissement ==
    [vocal       |-> [intensity |-> 75, type |-> "gemissement", rhythm |-> "normal",
                      pitch |-> 0],
     elevenlabs  |-> [stability |-> 300, similarity_boost |-> 920],
     environment |-> "plage"]

ProfileRapide ==
    [vocal       |-> [intensity |-> 95, type |-> "normal", rhythm |-> "rapide",
                      pitch |-> 5],
     elevenlabs  |-> [stability |-> 200, similarity_boost |-> 950],
     environment |-> "chambre"]

ProfileCri ==
    [vocal       |-> [intensity |-> 78, type |-> "cri", rhythm |-> "saccade",
                      pitch |-> 3],
     elevenlabs  |-> [stability |-> 1200, similarity_boost |-> 990],
     environment |-> "foret"]

ReplySegment(t, p) ==
    [text |-> t, vocal |-> p.vocal, elevenlabs |-> p.elevenlabs,
     environment |-> p.environment]

\* a segment whose text member is null
MalformedSegment == ReplySegment(NullText, ProfileSensuel)

\* the segments a reply is made of: every text, every profile, each kind of
\* transition, and crossfades both shorter and longer than one second
ReplySegments ==
    { ReplySegment(ReplyTextOhOui, ProfileRapide),
      ReplySegment(ReplyTextOhOui, ProfileMurmure),
      ReplySegment(ReplyTextViens, ProfileSensuel),
      ReplySegment(ReplyTextViens, ProfileRapide),
      ReplySegment(ReplyTextOui, ProfileGemissement),
      ReplySegment(ReplyTextOui, ProfileMurmure),
      ReplySegment(ReplyTextAttends, ProfileCri),
      ReplySegment(ReplyTextAttends, ProfileSensuel),
      ReplySegment(ReplyTextNumbers, ProfileSensuel),
      MalformedSegment }

\* the lists of at most MaxSegs segments
SegmentLists == UNION { [1..n -> ReplySegments] : n \in 0..MaxSegs }

Replies ==
    { [kind |-> "error", defined |-> FALSE, segments |-> <<>>],
      [kind |-> "json", defined |-> FALSE, segments |-> <<>>] }
    \cup { [kind |-> "json", defined |-> TRUE, segments |-> l] : l \in SegmentLists }

(***************************************************************************)
(* State                                                                   *)
(***************************************************************************)
VARIABLES
    pc,           \* position of generateVoiceWithEnvironment
    text,         \* its text argument
    path,         \* which code produced segments: remote, local or default
    segments,     \* the list returned by analyzeTextEnvironments
    currentTime,  \* final value of the timeline's running time
    i,            \* index of the loop over the segments
    requests,     \* the synthesis requests posted so far
    audioBlobs,   \* indices of the segments whose audio was received
    outcome,      \* how the call ended
    voice,        \* a call of getVoiceSettings: arguments and result
    call,         \* a call of another exported function: arguments and result
    reply,        \* what the remote analysis answered
    inFlight,     \* indices of the segments whose request awaits its response
    caught,       \* the error caught by the outer catch block
    inputText,            \* App: the text of the input
    isLoading,            \* App: a generation is shown as running
    generationProgress,   \* App: the percentage of the progress bar
    audioUrl,             \* App: the URL given to the player, 0 for null
    error,                \* App: the error message shown
    detectedEnvironment,  \* App: environment of the first detection
    detectedEmotion,      \* App: emotional tone of the first detection
    runs,                 \* App: the invocations of handleGenerateVoice
    analyses              \* App: the analyses started by handleTextChange

\* the state of the App component
appVars == <<inputText, isLoading, generationProgress, audioUrl, error, detectedEnvironment,
             detectedEmotion, runs, analyses>>

\* the state of the services
serviceVars == <<pc, text, path, segments, currentTime, i, requests, audioBlobs, outcome, voice,
                 call, reply, inFlight, caught>>

vars == <<serviceVars, caught, appVars>>

\* the App component after its construction: the useState initial values,
\* inputText being the empty string or the story found in sessionStorage
Mounted(storyText) ==
    /\ inputText = storyText
    /\ isLoading = FALSE
    /\ generationProgress = 0
    /\ audioUrl = 0
    /\ error = "null"
    /\ detectedEnvironment = "default"
    /\ detectedEmotion = "sensuel"
    /\ runs = <<>>
    /\ analyses = <<>>

NoSettings == [stability |-> Num(0), similarity_boost |-> Num(0)]

NoCall == [emotion |-> "sensuel", intensity |-> 0, progression |-> 0,
           returned |-> FALSE, settings |-> NoSettings]

\* no function was called
Idle == [fn |-> "none", returned |-> FALSE]

\* the remote analysis has not answered
NoReply == [kind |-> "none", defined |-> FALSE, segments |-> <<>>]

Init ==
    /\ pc = "idle"
    /\ text = <<>>
    /\ path = "none"
    /\ segments = <<>>
    /\ currentTime = 0
    /\ i = 0
    /\ requests = <<>>
    /\ audioBlobs = <<>>
    /\ outcome = "none"
    /\ voice = NoCall
    /\ call = Idle
    /\ reply = NoReply
    /\ inFlight = {}
    /\ caught = "none"
    /\ Mounted(<<>>)

(***************************************************************************)
(* generateVoiceWithEnvironment                                            *)
(***************************************************************************)
\* the errors of the call: thrown after the loop when audioBlobs is empty,
\* thrown by the analysis of a segment whose text is no string, the
\* rejection of a post, and the error that generateVoice throws
NoAudioError == "Aucun segment audio n'a ete genere"
TypeError == "TypeError"
RequestError == "AxiosError"
GenerateVoiceError == "Echec de la generation de la voix"

\* the call: analyzeTextEnvironments starts, the request to the remote
\* analysis is in flight
Generate(t) ==
    /\ pc = "idle"
    /\ pc' = "analyzing"
    /\ text' = t
    /\ UNCHANGED <<path, segments, currentTime, i, requests, audioBlobs, outcome, voice, call, reply, inFlight, caught, appVars>>

\* the remote analysis answers (or fails): analyzeTextEnvironments runs to
\* its end and the loop over the segments starts
AnalysisReturns(r) ==
    /\ pc = "analyzing"
    /\ reply' = r
    /\ LET analysis == analyzeTextEnvironments(text, r)
       IN  /\ path' = analysis.path
           /\ segments' = analysis.results
           /\ currentTime' = analysis.currentTime
    /\ i' = 0
    /\ pc' = "loop"
    /\ UNCHANGED <<text, requests, audioBlobs, outcome, voice, call, inFlight, caught, appVars>>

\* PostSegment without its await: the request is posted and the loop goes on
\* to the next segment before the response arrives
PostSegmentWithoutAwait ==
    /\ pc = "loop"
    /\ i < Len(segments)
    /\ requests' = Append(requests, SynthesisRequest(segments[i + 1], i))
    /\ inFlight' = inFlight \cup {i}
    /\ i' = i + 1
    /\ UNCHANGED <<pc, text, path, segments, currentTime, audioBlobs, outcome, voice, call, reply, caught, appVars>>

\* one iteration up to the await: the request of segment i is posted
PostSegment ==
    /\ pc = "loop"
    /\ i < Len(segments)
    /\ requests' = Append(requests, SynthesisRequest(segments[i + 1], i))
    /\ inFlight' = inFlight \cup {i}
    /\ pc' = "posting"
    /\ UNCHANGED <<text, path, segments, currentTime, i, audioBlobs, outcome, voice, call, reply, caught, appVars>>

\* the segment's text is no string: analyzeText and addBreathingAndPauses
\* (of services/elevenlabs, whose code is not at hand) read it before
\* anything is posted and may throw a TypeError, which leaves the loop for
\* the outer catch block, where generateVoice is called; PostSegment stays
\* enabled for the case that they do not throw
SegmentThrows ==
    /\ pc = "loop"
    /\ i < Len(segments)
    /\ ~IsString(segments[i + 1].segment)
    /\ pc' = "fallback"
    /\ caught' = TypeError
    /\ UNCHANGED <<text, path, segments, currentTime, i, requests, audioBlobs, outcome, voice, call, reply, inFlight, appVars>>

\* the response arrives: its blob is pushed
SegmentSucceeds ==
    /\ pc = "posting"
    /\ inFlight' = inFlight \ {i}
    /\ audioBlobs' = Append(audioBlobs, i)
    /\ i' = i + 1
    /\ pc' = "loop"
    /\ UNCHANGED <<text, path, segments, currentTime, requests, outcome, voice, call, reply, caught, appVars>>

\* SegmentFails with a catch block that gives up: the error leaves the loop
\* for the outer catch block
SegmentFailsAndAborts ==
    /\ pc = "posting"
    /\ inFlight' = inFlight \ {i}
    /\ pc' = "fallback"
    /\ caught' = RequestError
    /\ UNCHANGED <<text, path, segments, currentTime, i, requests, audioBlobs, outcome, voice, call, reply, appVars>>

\* the request fails: the inner catch block logs and the loop continues
SegmentFails ==
    /\ pc = "posting"
    /\ inFlight' = inFlight \ {i}
    /\ i' = i + 1
    /\ pc' = "loop"
    /\ UNCHANGED <<text, path, segments, currentTime, requests, audioBlobs, outcome, voice, call, reply, caught, appVars>>

\* after the loop, with audio: the blobs are concatenated and the URL returned
Concatenate ==
    /\ pc = "loop"
    /\ i = Len(segments)
    /\ Len(audioBlobs) > 0
    /\ pc' = "done"
    /\ outcome' = "url"
    /\ UNCHANGED <<text, path, segments, currentTime, i, requests, audioBlobs, voice, call, reply, inFlight, caught, appVars>>

\* after the loop, without audio: the error thrown is caught by the outer
\* catch block, which calls generateVoice
NoAudio ==
    /\ pc = "loop"
    /\ i = Len(segments)
    /\ Len(audioBlobs) = 0
    /\ pc' = "fallback"
    /\ caught' = NoAudioError
    /\ UNCHANGED <<text, path, segments, currentTime, i, requests, audioBlobs, outcome, voice, call, reply, inFlight, appVars>>

\* generateVoice returns a URL
FallbackSucceeds ==
    /\ pc = "fallback"
    /\ pc' = "done"
    /\ outcome' = "simple url"
    /\ UNCHANGED <<text, path, segments, currentTime, i, requests, audioBlobs, voice, call, reply, inFlight, caught, appVars>>

\* FallbackFails with a catch block that lets the error of generateVoice
\* through
FallbackFailsWithItsError ==
    /\ pc = "fallback"
    /\ pc' = "done"
    /\ outcome' = GenerateVoiceError
    /\ UNCHANGED <<text, path, segments, currentTime, i, requests, audioBlobs, voice, call, reply, inFlight, caught, appVars>>

\* generateVoice throws: the first error is thrown again
FallbackFails ==
    /\ pc = "fallback"
    /\ pc' = "done"
    /\ outcome' = caught
    /\ UNCHANGED <<text, path, segments, currentTime, i, requests, audioBlobs, voice, call, reply, inFlight, caught, appVars>>

Next ==
    \/ \E t \in StringTexts : Generate(t)
    \/ Generate(NullText)
    \/ \E r \in Replies : AnalysisReturns(r)
    \/ PostSegment
    \/ SegmentThrows
    \/ SegmentSucceeds
    \/ SegmentFails
    \/ Concatenate
    \/ NoAudio
    \/ FallbackSucceeds
    \/ FallbackFails

Spec == Init /\ [][Next]_vars

(***************************************************************************)
(* getVoiceSettings, called on its own                                     *)
(***************************************************************************)
\* the scale of an intensity: 0 to 100
MaxIntensity == 100

\* the six labels, two labels that no table has, two inherited names
EmotionLabels == KnownEmotions \cup {"joyeux", "", "constructor", "toString"}

\* intensities in hundredths: fractions of 1 and the whole numbers 1..100
Intensities == {0, 1, 5, 10, 25, 50, 75} \cup {100 * k : k \in 1..MaxIntensity}

\* progressions in hundredths
Progressions == {0, 10, 25, 50, 75, 100}

InitVS ==
    /\ pc = "idle"
    /\ text = <<>>
    /\ path = "none"
    /\ segments = <<>>
    /\ currentTime = 0
    /\ i = 0
    /\ requests = <<>>
    /\ audioBlobs = <<>>
    /\ outcome = "none"
    /\ voice \in [emotion : EmotionLabels, intensity : Intensities,
                  progression : Progressions, returned : {FALSE},
                  settings : {NoSettings}]
    /\ call = Idle
    /\ reply = NoReply
    /\ inFlight = {}
    /\ caught = "none"
    /\ Mounted(<<>>)

CallGetVoiceSettings ==
    /\ ~voice.returned
    /\ voice' = [voice EXCEPT !.returned = TRUE,
                              !.settings =
                    getVoiceSettings(voice.emotion,
                                     [intensity            |-> voice.intensity,
                                      emotionalProgression |-> voice.progression])]
    /\ UNCHANGED <<pc, text, path, segments, currentTime, i, requests, audioBlobs, outcome, call, reply, inFlight, caught, appVars>>

NextVS == CallGetVoiceSettings

SpecVS == InitVS /\ [][NextVS]_vars

(***************************************************************************)
(* calculateEmotionTransitionDuration, called on its own                   *)
(***************************************************************************)
\* the labels of EmotionLabels and one more inherited name
TransitionLabels == EmotionLabels \cup {"__proto__"}

InitTD ==
    /\ pc = "idle"
    /\ text = <<>>
    /\ path = "none"
    /\ segments = <<>>
    /\ currentTime = 0
    /\ i = 0
    /\ requests = <<>>
    /\ audioBlobs = <<>>
    /\ outcome = "none"
    /\ voice = NoCall
    /\ call \in [fn : {"calculateEmotionTransitionDuration"},
                 currentEmotion : TransitionLabels, nextEmotion : TransitionLabels,
                 returned : {FALSE}, result : {Millis(0)}]
    /\ reply = NoReply
    /\ inFlight = {}
    /\ caught = "none"
    /\ Mounted(<<>>)

CallTransitionDuration ==
    /\ call.fn = "calculateEmotionTransitionDuration"
    /\ ~call.returned
    /\ call' = [call EXCEPT !.returned = TRUE,
                            !.result = calculateEmotionTransitionDuration(
                                           call.currentEmotion, call.nextEmotion)]
    /\ UNCHANGED <<pc, text, path, segments, currentTime, i, requests, audioBlobs, outcome, voice, reply, inFlight, caught, appVars>>

NextTD == CallTransitionDuration

SpecTD == InitTD /\ [][NextTD]_vars

(***************************************************************************)
(* mapEnvironmentToSounds, called on its own                               *)
(***************************************************************************)
\* "Plage ensoleillee" with its accent, a label that no key matches, labels
\* with capitals and with runs of white space
LabelPlageEnsoleillee ==
    <<"P", "l", "a", "g", "e", " ", "e", "n", "s", "o", "l", "e", "i", "l", "l", "eacute", "e">>
LabelJardin ==
    <<"j", "a", "r", "d", "i", "n">>
LabelGrandeVille ==
    <<"U", "n", "e", " ", " ", "G", "R", "A", "N", "D", "E", " ", "\n", " ", "V", "i", "l", "l", "e">>
LabelForet ==
    <<"F", "o", "r", "ecirc", "t">>

\* the pieces of a string
Pieces(s) == { SubSeq(s, a, b) : a \in 1..Len(s), b \in 0..Len(s) }

\* the labels: every piece of every key (the empty string among them), every
\* key followed by another one, and the labels above
EnvironmentLabels ==
    UNION { Pieces(environmentSounds[k].key) : k \in 1..Len(environmentSounds) }
    \cup { environmentSounds[j].key \o <<" ">> \o environmentSounds[k].key :
               j \in 1..Len(environmentSounds), k \in 1..Len(environmentSounds) }
    \cup { LabelPlageEnsoleillee, LabelJardin, LabelGrandeVille, LabelForet }

InitSounds ==
    /\ pc = "idle"
    /\ text = <<>>
    /\ path = "none"
    /\ segments = <<>>
    /\ currentTime = 0
    /\ i = 0
    /\ requests = <<>>
    /\ audioBlobs = <<>>
    /\ outcome = "none"
    /\ voice = NoCall
    /\ call \in [fn : {"mapEnvironmentToSounds"}, environment : EnvironmentLabels,
                 returned : {FALSE}, result : {<<>>}]
    /\ reply = NoReply
    /\ inFlight = {}
    /\ caught = "none"
    /\ Mounted(<<>>)

CallMapEnvironmentToSounds ==
    /\ call.fn = "mapEnvironmentToSounds"
    /\ ~call.returned
    /\ call' = [call EXCEPT !.returned = TRUE,
                            !.result = mapEnvironmentToSounds(call.environment)]
    /\ UNCHANGED <<pc, text, path, segments, currentTime, i, requests, audioBlobs, outcome, voice, reply, inFlight, caught, appVars>>

NextSounds == CallMapEnvironmentToSounds

SpecSounds == InitSounds /\ [][NextSounds]_vars

(***************************************************************************)
(* analyzeTextWithGrok, called on its own: the content of the reply        *)
(***************************************************************************)
\* {"segments":[{"text":"a"}]}  and the same with "b"
JsonSegmentsA ==
    <<"{", "\"segments\"", ":", "[", "{", "\"text\"", ":", "\"a\"", "}", "]", "}">>
JsonSegmentsB ==
    <<"{", "\"segments\"", ":", "[", "{", "\"text\"", ":", "\"b\"", "}", "]", "}">>
\* {"segments":[{"text":"a"}, {"text":"b"}]}
JsonSegmentsAB ==
    <<"{", "\"segments\"", ":", "[", "{", "\"text\"", ":", "\"a\"", "}", ",", " ",
      "{", "\"text\"", ":", "\"b\"", "}", "]", "}">>
\* {"segments":[]}
JsonNoSegment ==
    <<"{", "\"segments\"", ":", "[", "]", "}">>
\* {"text":"a"} : an object that has no member segments
JsonNoMember ==
    <<"{", "\"text\"", ":", "\"a\"", "}">>
\* {"text":"a"},{"text":"b"} : the segments without the object around them
JsonBare ==
    <<"{", "\"text\"", ":", "\"a\"", "}", ",", "{", "\"text\"", ":", "\"b\"", "}">>
\* 1. {"segments":[{"text":"a"}]} : the object after a number of a list
JsonNumbered ==
    <<"1", ".", " ">> \o JsonSegmentsA
\* {"segments":[{"text":"a"} : an object cut short
JsonCut ==
    <<"{", "\"segments\"", ":", "[", "{", "\"text\"", ":", "\"a\"", "}">>
\* "segments": ["a"] : the member alone, with no brace
JsonSpan ==
    <<"\"segments\"", ":", " ", "[", "\"a\"", "]">>
\* a word of prose
Prose == <<"Voici">>

Payloads ==
    { JsonSegmentsA, JsonSegmentsAB, JsonNoSegment, JsonNoMember, JsonBare,
      JsonNumbered, JsonCut, JsonSpan, Prose }

\* the payload as it is, in a fence marked json, in a plain fence, after prose
Wrapped(payload) ==
    { payload,
      <<"fence", "json", "\n">> \o payload \o <<"\n", "fence">>,
      <<"fence", "\n">> \o payload \o <<"\n", "fence">>,
      Prose \o <<" ", ":", "\n">> \o payload }

\* what follows: nothing, a complete object, prose
Tails == { <<>>, <<"\n">> \o JsonSegmentsB, <<" ">> \o Prose }

Contents == { w \o t : w \in UNION { Wrapped(p) : p \in Payloads }, t \in Tails }

InitJSON ==
    /\ pc = "idle"
    /\ text = <<>>
    /\ path = "none"
    /\ segments = <<>>
    /\ currentTime = 0
    /\ i = 0
    /\ requests = <<>>
    /\ audioBlobs = <<>>
    /\ outcome = "none"
    /\ voice = NoCall
    /\ call \in [fn : {"analyzeTextWithGrok"}, content : Contents,
                 returned : {FALSE}, result : {Failed}]
    /\ reply = NoReply
    /\ inFlight = {}
    /\ caught = "none"
    /\ Mounted(<<>>)

\* the content of the reply is at hand: lines 199 to 244, or the catch block
CallExtractSegments ==
    /\ call.fn = "analyzeTextWithGrok"
    /\ ~call.returned
    /\ call' = [call EXCEPT !.returned = TRUE,
                            !.result = ExtractSegments(call.content)]
    /\ UNCHANGED <<pc, text, path, segments, currentTime, i, requests, audioBlobs, outcome, voice, reply, inFlight, caught, appVars>>

NextJSON == CallExtractSegments

SpecJSON == InitJSON /\ [][NextJSON]_vars

(***************************************************************************)
(* App: handleTextChange and the analyses it starts                        *)
(***************************************************************************)
\* number of text changes followed
MaxChanges == 2

\* the texts typed
ChangeTexts == {TextEmpty, TextBlank, TextMurmure, TextPlage, TextOhOui}

\* the replies of the remote analysis to a typed text: a failure, a JSON
\* object without a list, and the lists of at most one segment
AnalysisReplies == { r \in Replies : Len(r.segments) <= 1 }

\* a call of handleTextChange and the analysis it started: state is "none"
\* when the text was blank, "pending" until the promise settles
TextCall(t, state) ==
    [text |-> t, state |-> state, found |-> FALSE, environment |-> "default",
     emotionalTone |-> "sensuel"]

\* the same call once the promise of its analysis is fulfilled
Fulfilled(t, detections) ==
    IF Len(detections) > 0
    THEN [text |-> t, state |-> "settled", found |-> TRUE,
          environment |-> detections[1].environment,
          emotionalTone |-> detections[1].emotionalTone]
    ELSE TextCall(t, "settled")

InitApp ==
    /\ pc = "idle"
    /\ text = <<>>
    /\ path = "none"
    /\ segments = <<>>
    /\ currentTime = 0
    /\ i = 0
    /\ requests = <<>>
    /\ audioBlobs = <<>>
    /\ outcome = "none"
    /\ voice = NoCall
    /\ call = Idle
    /\ reply = NoReply
    /\ inFlight = {}
    /\ caught = "none"
    /\ \E storyText \in {TextEmpty, TextMurmure} : Mounted(storyText)

\* handleTextChange(t): the text and the error are set; a text that is not
\* blank starts an analysis, a blank one resets the detections
handleTextChange(t) ==
    /\ Len(analyses) < MaxChanges
    /\ inputText' = t
    /\ error' = "null"
    /\ IF Len(Trim(t)) > 0
       THEN /\ analyses' = Append(analyses, TextCall(t, "pending"))
            /\ UNCHANGED <<detectedEnvironment, detectedEmotion>>
       ELSE /\ analyses' = Append(analyses, TextCall(t, "none"))
            /\ detectedEnvironment' = "default"
            /\ detectedEmotion' = "sensuel"
    /\ UNCHANGED <<serviceVars, isLoading, generationProgress, audioUrl, runs>>

\* the then callback of the k-th call: its analysis is fulfilled with the
\* list that analyzeTextEnvironments computes from the reply r, and the
\* first detection, if any, is shown (the promise is never rejected, so the
\* catch callback does not run)
AnalysisFulfilled(k, r) ==
    /\ k \in 1..Len(analyses)
    /\ analyses[k].state = "pending"
    /\ LET detections == analyzeTextEnvironments(analyses[k].text, r).results
       IN  /\ analyses' = [analyses EXCEPT ![k] = Fulfilled(analyses[k].text, detections)]
           /\ IF Len(detections) > 0
              THEN /\ detectedEnvironment' = detections[1].environment
                   /\ detectedEmotion' = detections[1].emotionalTone
              ELSE UNCHANGED <<detectedEnvironment, detectedEmotion>>
    /\ UNCHANGED <<serviceVars, inputText, isLoading, generationProgress, audioUrl, error, runs>>

NextText ==
    \/ \E t \in ChangeTexts : handleTextChange(t)
    \/ \E k \in 1..MaxChanges, r \in AnalysisReplies : AnalysisFulfilled(k, r)

SpecText == InitApp /\ [][NextText]_vars

(***************************************************************************)
(* App: handleGenerateVoice                                                *)
(***************************************************************************)
\* number of clicks on the generate button followed
MaxClicks == 2

\* what navigator.clipboard.readText() settles with: a rejection, a blank
\* text, a text
ClipboardReads ==
    { [ok |-> FALSE, text |-> <<>>], [ok |-> TRUE, text |-> TextBlank],
      [ok |-> TRUE, text |-> TextMurmure] }

\* what generateVoiceWithEnvironment settles with: a URL, an empty string
\* (the case tested at line 222), an error
GenerationResults == {"url", "empty", "throws"}

\* Math.random() * 5 + 2, in points of the progress bar
Increments == {2, 6}

\* the invocations of handleGenerateVoice that have not returned
Unfinished == { k \in 1..Len(runs) : runs[k].at # "finished" }

\* an invocation of handleGenerateVoice that passed the isLoading test and
\* awaits the clipboard; overlaps records whether another invocation had not
\* returned when this one started
NewRun(t) ==
    [at |-> "clipboard", textToUse |-> t, called |-> FALSE, progressInterval |-> "none",
     result |-> "none", reset |-> "none", ended |-> "none", overlaps |-> Unfinished # {}]

\* positions between setIsLoading(true) and the finally block
RunningSteps == {"step5", "step15", "step25", "generating", "step90", "step95", "step100"}

\* the catch and finally blocks of run k: the message is shown, isLoading
\* is false, the delayed reset of the progress is scheduled; the function
\* returns and its local variables are gone
RunFailed(run) ==
    [run EXCEPT !.at = "finished", !.textToUse = <<>>, !.result = "none",
                !.progressInterval = "cleared", !.reset = "pending", !.ended = "failure"]

\* a click on the generate button, which is disabled while isLoading; the
\* handler reads inputText and starts reading the clipboard
ClickGenerate ==
    /\ Len(runs) < MaxClicks
    /\ ~isLoading
    /\ runs' = Append(runs, NewRun(inputText))
    /\ UNCHANGED <<serviceVars, inputText, isLoading, generationProgress, audioUrl, error,
                   detectedEnvironment, detectedEmotion, analyses>>

\* the clipboard read of run k settles: a text that is not blank replaces
\* the input; an empty text ends the run with a message, any other text
\* starts the generation (isLoading, progress 0 then 5)
ClipboardSettles(k, c) ==
    /\ k \in 1..Len(runs)
    /\ runs[k].at = "clipboard"
    /\ LET pasted    == c.ok /\ Len(Trim(c.text)) > 0
           textToUse == IF pasted THEN c.text ELSE runs[k].textToUse
       IN  /\ inputText' = IF pasted THEN c.text ELSE inputText
           /\ IF Len(Trim(textToUse)) = 0
              THEN /\ error' = "Veuillez entrer du texte"
                   /\ runs' = [runs EXCEPT ![k] = [@ EXCEPT !.at = "finished",
                                                            !.textToUse = <<>>,
                                                            !.ended = "no text"]]
                   /\ UNCHANGED <<isLoading, generationProgress>>
              ELSE /\ isLoading' = TRUE
                   /\ error' = "null"
                   /\ generationProgress' = 5
                   /\ runs' = [runs EXCEPT ![k] = [@ EXCEPT !.at = "step5",
                                                            !.textToUse = textToUse]]
    /\ UNCHANGED <<serviceVars, audioUrl, detectedEnvironment, detectedEmotion, analyses>>

\* the simulated delays of run k elapse: progress 15, then 25
PreparationStep(k) ==
    /\ k \in 1..Len(runs)
    /\ runs[k].at \in {"step5", "step15"}
    /\ generationProgress' = IF runs[k].at = "step5" THEN 15 ELSE 25
    /\ runs' = [runs EXCEPT ![k].at = IF runs[k].at = "step5" THEN "step15" ELSE "step25"]
    /\ UNCHANGED <<serviceVars, inputText, isLoading, audioUrl, error, detectedEnvironment,
                   detectedEmotion, analyses>>

\* progress 35, the interval timer is started and generateVoiceWithEnvironment
\* is called
StartGeneration(k) ==
    /\ k \in 1..Len(runs)
    /\ runs[k].at = "step25"
    /\ generationProgress' = 35
    /\ runs' = [runs EXCEPT ![k] = [@ EXCEPT !.at = "generating", !.called = TRUE,
                                             !.progressInterval = "running"]]
    /\ UNCHANGED <<serviceVars, inputText, isLoading, audioUrl, error, detectedEnvironment,
                   detectedEmotion, analyses>>

\* the interval timer of run k fires
IntervalTick(k, increment) ==
    /\ k \in 1..Len(runs)
    /\ runs[k].progressInterval = "running"
    /\ generationProgress' = IF generationProgress < 85
                             THEN Min(85, generationProgress + increment)
                             ELSE generationProgress
    /\ UNCHANGED <<serviceVars, inputText, isLoading, audioUrl, error, detectedEnvironment,
                   detectedEmotion, runs, analyses>>

\* GenerationSettles whose error path lacks the finally block: isLoading
\* stays true
GenerationSettlesWithoutFinally(k, result) ==
    /\ k \in 1..Len(runs)
    /\ runs[k].at = "generating"
    /\ IF result = "throws"
       THEN /\ error' = "Erreur lors de la generation de la voix"
            /\ runs' = [runs EXCEPT ![k] = [RunFailed(@) EXCEPT !.reset = "none"]]
            /\ UNCHANGED <<isLoading, generationProgress>>
       ELSE /\ generationProgress' = 90
            /\ runs' = [runs EXCEPT ![k] = [@ EXCEPT !.at = "step90", !.result = result,
                                                     !.progressInterval = "cleared"]]
            /\ UNCHANGED <<isLoading, error>>
    /\ UNCHANGED <<serviceVars, inputText, audioUrl, detectedEnvironment, detectedEmotion,
                   analyses>>

\* generateVoiceWithEnvironment settles for run k: the interval timer is
\* cleared; a returned value gives progress 90, an error goes through the
\* catch and finally blocks
GenerationSettles(k, result) ==
    /\ k \in 1..Len(runs)
    /\ runs[k].at = "generating"
    /\ IF result = "throws"
       THEN /\ error' = "Erreur lors de la generation de la voix"
            /\ isLoading' = FALSE
            /\ runs' = [runs EXCEPT ![k] = RunFailed(@)]
            /\ UNCHANGED generationProgress
       ELSE /\ generationProgress' = 90
            /\ runs' = [runs EXCEPT ![k] = [@ EXCEPT !.at = "step90", !.result = result,
                                                     !.progressInterval = "cleared"]]
            /\ UNCHANGED <<isLoading, error>>
    /\ UNCHANGED <<serviceVars, inputText, audioUrl, detectedEnvironment, detectedEmotion,
                   analyses>>

\* progress 95
FinalisationStep(k) ==
    /\ k \in 1..Len(runs)
    /\ runs[k].at = "step90"
    /\ generationProgress' = 95
    /\ runs' = [runs EXCEPT ![k].at = "step95"]
    /\ UNCHANGED <<serviceVars, inputText, isLoading, audioUrl, error, detectedEnvironment,
                   detectedEmotion, analyses>>

\* the URL is tested: an empty one throws (catch and finally blocks), any
\* other gives progress 100
CheckUrl(k) ==
    /\ k \in 1..Len(runs)
    /\ runs[k].at = "step95"
    /\ IF runs[k].result = "empty"
       THEN /\ error' = "Erreur lors de la generation de la voix"
            /\ isLoading' = FALSE
            /\ runs' = [runs EXCEPT ![k] = RunFailed(@)]
            /\ UNCHANGED generationProgress
       ELSE /\ generationProgress' = 100
            /\ runs' = [runs EXCEPT ![k].at = "step100"]
            /\ UNCHANGED <<isLoading, error>>
    /\ UNCHANGED <<serviceVars, inputText, audioUrl, detectedEnvironment, detectedEmotion,
                   analyses>>

\* the URL of run k is given to the player; finally block
SetAudioUrl(k) ==
    /\ k \in 1..Len(runs)
    /\ runs[k].at = "step100"
    /\ audioUrl' = k
    /\ isLoading' = FALSE
    /\ runs' = [runs EXCEPT ![k] = [@ EXCEPT !.at = "finished", !.textToUse = <<>>,
                                             !.result = "none", !.reset = "pending",
                                             !.ended = "success"]]
    /\ UNCHANGED <<serviceVars, inputText, generationProgress, error, detectedEnvironment,
                   detectedEmotion, analyses>>

\* the timeout set by the finally block of run k fires, 2 s after its end
DelayedReset(k) ==
    /\ k \in 1..Len(runs)
    /\ runs[k].reset = "pending"
    /\ generationProgress' = 0
    /\ runs' = [runs EXCEPT ![k].reset = "fired"]
    /\ UNCHANGED <<serviceVars, inputText, isLoading, audioUrl, error, detectedEnvironment,
                   detectedEmotion, analyses>>

\* the steps of run k that its awaited promises and timers bring about
Advance(k) ==
    \/ \E c \in ClipboardReads : ClipboardSettles(k, c)
    \/ PreparationStep(k)
    \/ StartGeneration(k)
    \/ \E result \in GenerationResults : GenerationSettles(k, result)
    \/ FinalisationStep(k)
    \/ CheckUrl(k)
    \/ SetAudioUrl(k)

NextApp ==
    \/ ClickGenerate
    \/ \E k \in 1..MaxClicks : Advance(k)
    \/ \E k \in 1..MaxClicks, increment \in Increments : IntervalTick(k, increment)
    \/ \E k \in 1..MaxClicks : DelayedReset(k)

SpecApp == InitApp /\ [][NextApp]_vars

\* every awaited promise settles and every timeout fires: the clipboard
\* read, the simulated delays, and generateVoiceWithEnvironment, whose
\* requests carry a timeout
SpecAppFair == SpecApp /\ \A k \in 1..MaxClicks : WF_vars(Advance(k))

(***************************************************************************)
(* Properties of the timeline                                              *)
(***************************************************************************)
\* C1: along the list returned by analyzeTextEnvironments the start times
\* never decrease: startTime[k+1] >= startTime[k] for every k.
C1_StartTimesNonDecreasing ==
    \A k \in 1..(Len(segments) - 1) :
        segments[k + 1].startTime >= segments[k].startTime

\* C2: every returned segment starts at a time >= 0 and the first segment
\* starts at 0.
C2_StartTimesNonNegative ==
    /\ \A k \in 1..Len(segments) : segments[k].startTime >= 0
    /\ Len(segments) > 0 => segments[1].startTime = 0

\* C3: for every segment k that is not the last, the next segment starts at
\* startTime[k] + duration[k] when k's transition is no crossfade, and at
\* startTime[k] + duration[k] - transitionDuration[k] when it is a
\* crossfade; after the last segment the running time is its start plus its
\* whole duration, whatever its transition.
C3_TimelineEquations ==
    /\ \A k \in 1..(Len(segments) - 1) :
           segments[k + 1].startTime =
               IF segments[k].transitionType = "crossfade"
               THEN segments[k].startTime + segments[k].duration
                        - segments[k].transitionDuration
               ELSE segments[k].startTime + segments[k].duration
    /\ (path \in {"remote", "local"} /\ Len(segments) > 0) =>
           currentTime = segments[Len(segments)].startTime
                             + segments[Len(segments)].duration

\* a timeline of two crossfading segments: the first one shortens the start
\* of the second, the second (last) one shortens nothing
C3_Witness ==
    /\ path = "remote"
    /\ Len(segments) = 2
    /\ segments[1].transitionType = "crossfade"
    /\ segments[2].transitionType = "crossfade"
    /\ segments[2].startTime = segments[1].duration - Second
    /\ currentTime = segments[2].startTime + segments[2].duration

\* C4: on every path the transition of a segment is decided by the
\* segment's own text (ellipsis: crossfade; else final . ! or ?: cut; else
\* overlap) and its duration by the kind: crossfade 1.0 s, overlap 0.5 s,
\* cut 0.2 s.
C4_TransitionFromText ==
    \A k \in 1..Len(segments) :
        /\ IsString(segments[k].segment) =>
               segments[k].transitionType =
                   IF Includes(segments[k].segment, KwEllipsis) THEN "crossfade"
                   ELSE IF LET t == Trim(segments[k].segment)
                           IN  Len(t) > 0 /\ t[Len(t)] \in {".", "!", "?"}
                   THEN "cut"
                   ELSE "overlap"
        /\ segments[k].transitionDuration =
               CASE segments[k].transitionType = "crossfade" -> Second
                 [] segments[k].transitionType = "overlap"   -> Second \div 2
                 [] segments[k].transitionType = "cut"       -> Second \div 5

(***************************************************************************)
(* Properties of the speech rate                                           *)
(***************************************************************************)
\* C5: the prosody rate of every request posted by
\* generateVoiceWithEnvironment is at most 35 %, whatever speed the analysis
\* attached to the segment and whatever its emotion.
C5_RequestRateAtMost35 ==
    \A k \in 1..Len(requests) :
        ~requests[k].rate.nan /\ requests[k].rate.val <= 35

\* a request posted for a segment whose analysis asked for 55 %
C5_Witness ==
    \E k \in 1..Len(requests) :
        /\ segments[requests[k].index + 1].speed = <<"5", "5", "%">>
        /\ requests[k].rate = Num(35)

\* C6: every segment returned by analyzeTextEnvironments carries a speed of
\* at most 35 %, from the remote analysis or from the local one, for every
\* rhythm.
C6_SegmentSpeedAtMost35 ==
    \A k \in 1..Len(segments) :
        LET speed == ParseInt(RemovePercent(segments[k].speed))
        IN  ~speed.nan /\ speed.val <= 35

\* C7: a segment whose emotion is murmure is synthesized at a rate of the
\* whisper tier: at most 22 %.
C7_WhisperRate ==
    \A k \in 1..Len(requests) :
        segments[requests[k].index + 1].emotionalTone = "murmure" =>
            ~requests[k].rate.nan /\ requests[k].rate.val <= 22

(***************************************************************************)
(* Properties of getVoiceSettings                                          *)
(***************************************************************************)
Between(x, low, high) == ~x.nan /\ low <= x.val /\ x.val <= high

Clamp(x, low, high) == Max(low, Min(high, x))

\* C8: for every label, every intensity in [0,100] and every progression
\* in [0,1] the result has stability in [0.15, 0.75] and similarity_boost in
\* [0.75, 0.98].
C8_SettingsInRange ==
    voice.returned =>
        /\ Between(voice.settings.stability, 150000, 750000)
        /\ Between(voice.settings.similarity_boost, 750000, 980000)

\* C9: for a label of the table and an intensity on the scale 0..100,
\* stability = clamp(base * (1 - intensity/100 * 0.3), 0.15, 0.75) and
\* similarity_boost = clamp(base + progression * 0.15, 0.75, 0.98).
C9_DocumentedFormula ==
    (voice.returned /\ voice.emotion \in KnownEmotions /\ voice.intensity % 100 = 0) =>
        LET base      == baseSettings(voice.emotion)
            intensity == voice.intensity \div 100
        IN  /\ voice.settings.stability =
                   Num(Clamp(base.stability.val * (1000 - 3 * intensity),
                             150000, 750000))
            /\ voice.settings.similarity_boost =
                   Num(Clamp(base.similarity_boost.val * 1000
                                 + voice.progression * 1500,
                             750000, 980000))

\* C10: for a label outside the table the result is the one of "sensuel"
\* with the same intensity and progression.
C10_UnknownLabelAsSensuel ==
    (voice.returned /\ voice.emotion \notin KnownEmotions) =>
        voice.settings =
            getVoiceSettings("sensuel",
                             [intensity            |-> voice.intensity,
                              emotionalProgression |-> voice.progression])

(***************************************************************************)
(* Properties of calculateEmotionTransitionDuration                        *)
(***************************************************************************)
\* C11: calculateEmotionTransitionDuration(a, b) returns the value of the
\* table for a listed pair of distinct known emotions and 500 ms for every
\* other pair: every self-pair and every pair with a label outside the six.
C11_TransitionDurationTotal ==
    (call.fn = "calculateEmotionTransitionDuration" /\ call.returned) =>
        call.result =
            IF /\ call.currentEmotion \in KnownEmotions
               /\ call.nextEmotion \in KnownEmotions
               /\ call.currentEmotion # call.nextEmotion
            THEN Millis(transitionMap(call.currentEmotion, call.nextEmotion))
            ELSE Millis(500)

(***************************************************************************)
(* Properties of the voice settings sent with a request                    *)
(***************************************************************************)
\* C12: the stability and the similarity_boost of every request posted by
\* generateVoiceWithEnvironment lie in [0.15, 0.98], whatever the remote
\* analysis returned and whatever the local analysis assigned.
C12_SentSettingsClamped ==
    \A k \in 1..Len(requests) :
        /\ 150 <= requests[k].stability /\ requests[k].stability <= 980
        /\ 150 <= requests[k].similarity_boost /\ requests[k].similarity_boost <= 980

(***************************************************************************)
(* Properties of the analysis under failures                               *)
(***************************************************************************)
\* the call of analyzeTextEnvironments has returned
Analysed == path # "none"

\* C13: for every non-empty text and every behaviour of the remote analysis
\* (failure, reply with an empty or missing list of segments)
\* analyzeTextEnvironments returns at least one segment.
C13_AtLeastOneSegment ==
    (Analysed /\ IsString(text) /\ Len(Trim(text)) > 0) => Len(segments) >= 1

\* C14: when the call of the remote analysis fails, the segments returned by
\* analyzeTextEnvironments are those of the local analysis of the text:
\* paragraphs, each classified by its keywords.
C14_RemoteFailureGoesLocal ==
    (Analysed /\ reply.kind = "error" /\ IsString(text) /\ Len(Trim(text)) > 0) =>
        /\ path = "local"
        /\ segments = AddTiming(ClassifySegments(LocalSegments(text)), 0, 0, <<>>).results

\* C15: analyzeTextEnvironments never rejects: for every text, every failure
\* of the remote analysis and every failure of the conversion of its reply
\* it returns a list of segments.
C15_AnalysisNeverRejects ==
    Analysed => path \in {"remote", "local", "default"}

\* the conversion of the reply failed, then the local analysis failed too,
\* and a list was returned all the same
C15_Witness ==
    /\ reply.kind = "json"
    /\ ~reply.defined
    /\ ~IsString(text)
    /\ path = "default"
    /\ Len(segments) = 1

\* C16: for an empty text and for a text of white space only the analysis
\* fails at once: no request to the remote analysis is issued and no list of
\* segments is returned.
C16_EmptyInputFailsFast ==
    (IsString(text) /\ Len(Trim(text)) = 0) => (pc # "analyzing" /\ ~Analysed)

(***************************************************************************)
(* Properties of the local classifier                                      *)
(***************************************************************************)
\* the labels in the order of their priority, and the keywords of a label
EmotionPriority == <<"excite", "jouissance", "murmure", "intense", "doux">>

EnvironmentPriority == <<"plage", "foret", "pluie", "ville">>

Cues(label) ==
    CASE label = "excite"     -> {KwGemis, KwSoupir, KwExcit}
      [] label = "jouissance" -> {KwExtase, KwJouir, KwOrgasme}
      [] label = "murmure"    -> {KwMurmure, KwChuchot}
      [] label = "intense"    -> {KwFort, KwIntense, KwViolent}
      [] label = "doux"       -> {KwDoux, KwTendre}
      [] label = "plage"      -> {KwPlage, KwMer, KwVague}
      [] label = "foret"      -> {KwForet, KwBois, KwArbre}
      [] label = "pluie"      -> {KwPluie, KwOrage}
      [] label = "ville"      -> {KwVille, KwRue}

\* a keyword of the label occurs in the segment, whatever the case
Occurs(segment, label) ==
    \E kw \in Cues(label) : Includes(ToLowerCase(segment), kw)

\* label is the first of the order with a keyword in the segment, or the
\* default when no label of the order has one
IsFirstMatch(label, segment, order, default) ==
    \/ \E n \in 1..Len(order) :
           /\ label = order[n]
           /\ Occurs(segment, order[n])
           /\ \A j \in 1..(n - 1) : ~Occurs(segment, order[j])
    \/ /\ label = default
       /\ \A n \in 1..Len(order) : ~Occurs(segment, order[n])

\* C17: the local classifier gives every segment the first emotion of
\* excite, jouissance, murmure, intense, doux with a keyword in the segment
\* (else sensuel) and, independently, the first environment of plage, foret,
\* pluie, ville with a keyword in it (else chambre); an empty segment gets
\* (sensuel, chambre), and so does the segment of a text that is no string.
C17_FirstMatchWins ==
    /\ path = "local" =>
           \A k \in 1..Len(segments) :
               /\ IsFirstMatch(segments[k].emotionalTone, segments[k].segment,
                               EmotionPriority, "sensuel")
               /\ IsFirstMatch(segments[k].environment, segments[k].segment,
                               EnvironmentPriority, "chambre")
               /\ Len(segments[k].segment) = 0 =>
                      /\ segments[k].emotionalTone = "sensuel"
                      /\ segments[k].environment = "chambre"
    /\ path = "default" =>
           \A k \in 1..Len(segments) :
               /\ segments[k].emotionalTone = "sensuel"
               /\ segments[k].environment = "chambre"

\* a segment with keywords of excite and of doux, of plage and of ville:
\* the labels of the higher priority are given
C17_Witness ==
    /\ path = "local"
    /\ Len(segments) = 1
    /\ segments[1].segment = TextSoupir
    /\ Occurs(TextSoupir, "excite") /\ Occurs(TextSoupir, "doux")
    /\ Occurs(TextSoupir, "plage") /\ Occurs(TextSoupir, "ville")
    /\ segments[1].emotionalTone = "excite"
    /\ segments[1].environment = "plage"

(***************************************************************************)
(* Properties of mapEnvironmentToSounds                                    *)
(***************************************************************************)
\* the normalized label contains the normalized key of entry k, or is
\* contained in it
Contained(label, k) ==
    \/ Includes(Normalize(label), Normalize(environmentSounds[k].key))
    \/ Includes(Normalize(environmentSounds[k].key), Normalize(label))

\* C18: for every label, the empty string included, mapEnvironmentToSounds
\* returns a list that is not empty: the list of the first entry of the
\* catalog whose key the normalized label contains or is contained in, the
\* list of the default entry when there is none; "Plage ensoleillee" gets
\* the two sounds of plage.
C18_FirstContainedKey ==
    (call.fn = "mapEnvironmentToSounds" /\ call.returned) =>
        /\ Len(call.result) >= 1
        /\ \/ \E k \in 1..Len(environmentSounds) :
                  /\ Contained(call.environment, k)
                  /\ \A j \in 1..(k - 1) : ~Contained(call.environment, j)
                  /\ call.result = environmentSounds[k].sounds
           \/ /\ \A k \in 1..Len(environmentSounds) : ~Contained(call.environment, k)
              /\ call.result = <<"calm-nature-sounds-196258.mp3">>
        /\ call.environment = LabelPlageEnsoleillee =>
               call.result = <<"ocean-waves-112906.mp3", "sea-and-seagull-wave-5932.mp3">>

\* the call for "Plage ensoleillee" has returned the list of plage
C18_Witness ==
    /\ call.fn = "mapEnvironmentToSounds"
    /\ call.returned
    /\ call.environment = LabelPlageEnsoleillee
    /\ call.result = environmentSounds[1].sounds
    /\ Len(call.result) = 2

RECURSIVE FirstParseable(_, _)
FirstParseable(content, n) ==
    IF n > 4 THEN 0
    ELSE IF /\ MatchPattern(n, content).found
            /\ JsonParse(PreparedJson(MatchPattern(n, content))).ok
    THEN n
    ELSE FirstParseable(content, n + 1)

\* C19: the four patterns are tried in their order until the text of one,
\* cleaned and wrapped, can be parsed: the segments of the first pattern
\* whose text can be parsed are returned, and the call fails only when the
\* text of no pattern can be parsed.
C19_FirstParseableCandidate ==
    (call.fn = "analyzeTextWithGrok" /\ call.returned) =>
        LET n == FirstParseable(call.content, 1)
        IN  call.result =
                IF n = 0 THEN Failed
                ELSE ParseSegments(PreparedJson(MatchPattern(n, call.content)))

(***************************************************************************)
(* Properties of the loop over the segments                                *)
(***************************************************************************)
\* a sequence of indices is strictly increasing
Increasing(s) == \A k \in 1..Len(s), l \in 1..Len(s) : k < l => s[k] < s[l]

\* the indices of the segments whose request was posted, in the order of
\* the posts
RequestIndices == [k \in 1..Len(requests) |-> requests[k].index]

\* C21: within one call the requests are issued one at a time in the order
\* of the segments: at most one request awaits its response, it is the
\* request of the current segment (those of the earlier segments have all
\* completed), and the audio is concatenated in the order of the segments
C21_OneRequestAtATime ==
    /\ Cardinality(inFlight) <= 1
    /\ \A k \in inFlight : k = i /\ pc = "posting"
    /\ Increasing(RequestIndices)
    /\ \A k \in 1..Len(requests) : requests[k].index <= i
    /\ Increasing(audioBlobs)
    /\ \A k \in 1..Len(audioBlobs) : audioBlobs[k] \in { requests[l].index : l \in 1..Len(requests) }

\* two segments were requested one after the other and their audio was
\* concatenated
C21_Witness ==
    /\ pc = "done"
    /\ outcome = "url"
    /\ Len(requests) = 2
    /\ audioBlobs = <<0, 1>>

\* the elements of a sequence
Range(s) == { s[k] : k \in 1..Len(s) }

\* the segments whose request was answered by an error
FailedSegments == (Range(RequestIndices) \ inFlight) \ Range(audioBlobs)

\* C22: once the request of a segment has failed, the loop goes on: every
\* segment up to the current one was requested, the call ends only after
\* the last segment, and if some segment succeeded it ends with the URL of
\* the received pieces in the order of the segments, the simple voice not
\* being called
C22_FailedSegmentSkipped ==
    FailedSegments # {} =>
        /\ Range(RequestIndices) = { k \in 0..i : k < i \/ k \in inFlight }
        /\ pc \in {"done", "fallback"} => i = Len(segments)
        /\ Len(audioBlobs) > 0 =>
              /\ pc # "fallback"
              /\ outcome \in {"none", "url"}
              /\ pc = "done" => outcome = "url"
        /\ Increasing(audioBlobs)
        /\ Range(audioBlobs) \cap FailedSegments = {}

\* the first of two segments failed, the second succeeded, and the call
\* returned the URL of the second piece
C22_Witness ==
    /\ pc = "done"
    /\ outcome = "url"
    /\ Len(segments) = 2
    /\ FailedSegments = {0}
    /\ audioBlobs = <<1>>

\* the segment whose audio is the k-th piece of the concatenation
Piece(k) == segments[audioBlobs[k] + 1]

\* C23: after a segment was skipped, the timeline is that of the audio
\* produced: the first piece starts at 0 and every piece starts where the
\* piece before it ends (less its crossfade)
C23_TimelineFollowsSkips ==
    (pc = "done" /\ outcome = "url" /\ FailedSegments # {} /\ Len(Trim(text)) > 0) =>
        /\ Piece(1).startTime = 0
        /\ \A k \in 1..(Len(audioBlobs) - 1) :
               Piece(k + 1).startTime =
                   IF Piece(k).transitionType = "crossfade"
                   THEN Piece(k).startTime + Piece(k).duration - Piece(k).transitionDuration
                   ELSE Piece(k).startTime + Piece(k).duration

(***************************************************************************)
(* Properties of the fades                                                 *)
(***************************************************************************)
\* C24: every emitted segment, on the remote, the local and the default
\* path, has fadeIn = fadeOut = min(1 s, a tenth of its duration), so that
\* the two fades together are never longer than the segment
C24_FadesFromDuration ==
    \A k \in 1..Len(segments) :
        /\ segments[k].fadeIn = segments[k].fadeOut
        /\ 10 * segments[k].fadeIn = Min(10 * Second, segments[k].duration)
        /\ segments[k].fadeIn + segments[k].fadeOut <= segments[k].duration

(***************************************************************************)
(* Properties of the App component                                         *)
(***************************************************************************)
\* no analysis is pending
AllSettled == \A k \in 1..Len(analyses) : analyses[k].state # "pending"

\* C26: once every analysis has completed, the detections shown are those
\* of the latest text: the defaults when it was blank, and otherwise the
\* first detection of its own analysis (when that analysis returned one)
C26_LatestTextWins ==
    (Len(analyses) > 0 /\ AllSettled) =>
        LET latest == analyses[Len(analyses)]
        IN  IF latest.state = "none"
            THEN detectedEnvironment = "default" /\ detectedEmotion = "sensuel"
            ELSE latest.found =>
                     /\ detectedEnvironment = latest.environment
                     /\ detectedEmotion = latest.emotionalTone

\* C25: at most one generation is in progress at any time: an invocation
\* that starts while another has not finished (even one still awaiting the
\* clipboard) never calls generateVoiceWithEnvironment
C25_OneGenerationAtATime ==
    \A k \in 1..Len(runs) : runs[k].overlaps => ~runs[k].called

\* the invocations between setIsLoading(true) and their finally block
Running == { k \in 1..Len(runs) : runs[k].at \in RunningSteps }

\* no invocation started while another had not returned
NoOverlap == \A k \in 1..Len(runs) : ~runs[k].overlaps

\* C27: while a generation is running, and no invocation has overlapped
\* another, the progress stays within 0..100 and no step decreases it, the
\* delayed reset of an earlier generation included
C27_ProgressNeverDecreases ==
    [][(Running # {} /\ Running' = Running /\ NoOverlap /\ NoOverlap') =>
           /\ generationProgress' \in 0..100
           /\ generationProgress' >= generationProgress]_vars

\* run k ends in this step by its catch block
FailsNow(k) ==
    /\ k \in 1..Len(runs)
    /\ runs[k].at \in RunningSteps
    /\ runs'[k].at = "finished"
    /\ runs'[k].ended = "failure"

\* C28: every generation started (isLoading set to true) eventually ends
\* with isLoading false and its interval timer cleared, whatever
\* generateVoiceWithEnvironment settles with; a failure sets an error
\* message and leaves audioUrl unchanged
C28_GenerationEnds ==
    /\ \A k \in 1..MaxClicks :
           (k \in Running) ~>
               (/\ k \in 1..Len(runs)
                /\ runs[k].at = "finished"
                /\ runs[k].progressInterval = "cleared"
                /\ ~isLoading)
    /\ [][\A k \in 1..MaxClicks :
              FailsNow(k) => (error' # "null" /\ audioUrl' = audioUrl /\ ~isLoading')]_vars

\* a generation failed after an earlier one had succeeded: the message is
\* shown, the URL of the earlier one is kept, nothing is loading and no
\* timer is running
C28_Witness ==
    /\ Len(runs) = 2
    /\ runs[1].ended = "success"
    /\ runs[2].ended = "failure"
    /\ runs[2].progressInterval = "cleared"
    /\ audioUrl = 1
    /\ error # "null"
    /\ ~isLoading

(***************************************************************************)
(* Properties of the simple-voice fallback                                 *)
(***************************************************************************)
\* every segment was requested and every request failed
EveryRequestFailed ==
    /\ i = Len(segments)
    /\ FailedSegments = { k \in 0..Len(segments) : k < Len(segments) }

\* C29: generateVoice is called exactly when the environment-aware path
\* produced no audio (for a text that is a string: no segment, or every
\* request failed); the call then returns the URL of generateVoice, or
\* rejects with the error caught first, never with that of generateVoice
C29_FallbackOnlyWithoutAudio ==
    /\ pc = "fallback" => Len(audioBlobs) = 0
    /\ (pc = "fallback" /\ IsString(text)) => (Len(segments) = 0 \/ EveryRequestFailed)
    /\ pc = "done" => (Len(audioBlobs) = 0 <=> outcome # "url")
    /\ (pc = "done" /\ outcome \notin {"url", "simple url"}) =>
           /\ outcome = caught
           /\ outcome \in {NoAudioError, TypeError}

\* both requests failed and generateVoice failed too: the call rejects with
\* the error thrown after the loop
C29_Witness ==
    /\ pc = "done"
    /\ Len(requests) = 2
    /\ EveryRequestFailed
    /\ outcome = NoAudioError

(***************************************************************************)
(* Properties of the emotional tone of a remote segment                    *)
(***************************************************************************)
\* C30: on the remote path a segment of the reply whose vocal intensity is
\* above 90, and whose vocal type is not gemissement, is labelled
\* jouissance
C30_Above90IsJouissance ==
    (path = "remote" /\ reply.defined /\ Len(segments) = Len(reply.segments)
         /\ Len(Trim(text)) > 0) =>
        \A k \in 1..Len(segments) :
            (/\ reply.segments[k].vocal.intensity > 90
             /\ reply.segments[k].vocal.type # "gemissement") =>
                segments[k].emotionalTone = "jouissance"

====
